---- MODULE Spec2Model ----
(***************************************************************************)
(* Model of the race.ini interception watchdog of acc-race-kiosk           *)
(* (src/interceptor/main.py): the line patcher of RaceIniHandler, its      *)
(* retrying file I/O, the debounced on_modified handler run by the         *)
(* watchdog observer thread, and WatchdogManager.start/stop.               *)
(*                                                                         *)
(* Text is modelled character by character: a string is a sequence of      *)
(* one-character strings.  NUL stands for "\x00" and BadByte for a byte    *)
(* that is not valid UTF-8.  Time is counted in ticks of 50 ms.            *)
(***************************************************************************)
EXTENDS Integers, Sequences, FiniteSets, TLC

VARIABLES
    (* ---- patcher pipeline (PatchSpec) ---- *)
    pfile,      \* bytes of race.ini
    pname,      \* RaceIniHandler._player_name
    plines,     \* result of _read_race_ini
    pmod,       \* result of _modify_lines
    p_kiosk,        \* what the loop of the kiosk's modify_race_ini makes of plines
    p_joiner,       \* what the loop of the joiner's modify_race_ini makes of plines
    pfirst,     \* bytes written by the first pass
    pstage,     \* position in _inject_player_name
    ppass,      \* 1 for the first pass over the file, 2 for the second
    (* ---- one watch session (Spec) ---- *)
    file,           \* bytes of race.ini on disk
    mgr_observer,   \* WatchdogManager._observer is not None
    obs_running,    \* the session's Observer thread is started and not stopped
    evq,            \* the observer's queue of events not yet dispatched
    h_name,         \* RaceIniHandler._player_name
    elapsed,        \* time.time() - RaceIniHandler._last_modified_time, in ticks
    h_done,         \* RaceIniHandler._injection_completed
    pc,             \* where the observer thread is inside on_modified
    attempt,        \* loop variable of the retry loop being run
    sleep,          \* ticks left of the running time.sleep()
    h_lines,        \* lines, local of _inject_player_name
    h_modified,     \* modified_lines, local of _inject_player_name
    cur,            \* event, the argument of the latest on_modified call
    stop_threads,   \* threads started by _on_injection_complete, not yet run
    stop_tasks,     \* stop_observer_task threads, not yet run
    starts,         \* calls of WatchdogManager.start so far
    emitted,        \* events the other processes caused so far
    n_accepted,     \* events of this handler that passed every filter
    n_true,         \* _inject_player_name calls of this handler that returned True
    n_false,        \* _inject_player_name calls of this handler that returned False
    n_complete,     \* on_injection_complete calls of this handler
    n_failed,       \* on_injection_failed calls of this handler
    n_wtries,       \* open-for-writing attempts of the latest _write_race_ini call
    (* ---- the kiosk, ac_nickname_interceptor.py (KioskSpec) ---- *)
    k_file,             \* bytes of race.ini on disk
    k_linesep,          \* os.linesep of the platform the kiosk runs on
    k_nickname_var,     \* NicknameInterceptorUI.nickname_var, the entry field
    k_current_racer,    \* NicknameInterceptorUI.current_racer
    k_monitoring,       \* NicknameInterceptorUI.monitoring
    k_observer,         \* NicknameInterceptorUI.observer: "none", "running", "stopping"
    k_ui,               \* the UI thread: "launch", "mainloop", "joining", "destroyed"
    k_evq,              \* the observer's queue of events not yet dispatched
    k_elapsed,          \* time.time() - RaceIniHandler.last_modified_time, in ticks
    k_pc,               \* where the observer thread is inside on_modified
    k_attempt,          \* loop variable of the retry loop being run
    k_sleep,            \* ticks left of the running time.sleep()
    k_nick,             \* nickname, local of on_modified
    k_lines,            \* modified_lines, local of modify_race_ini
    k_nickname_set,     \* NicknameInterceptorUI.nickname_set
    k_race_count,       \* NicknameInterceptorUI.race_count
    k_update_timers,    \* pending window.after(100, update_after_race_start)
    k_prepare_timers,   \* pending window.after(4000, prepare_for_next_player)
    k_rewrote,          \* modify_race_ini calls that wrote race.ini
    k_gaveup,           \* modify_race_ini calls that ended in the except branch
    k_emitted,          \* events the other processes caused so far
    k_accepted,         \* events that passed the filters of on_modified so far
    (* ---- the read retry loop (RetrySpec) ---- *)
    r_outcomes,     \* what each open/read attempt will do
    r_attempt,      \* attempt, the loop variable of _read_race_ini
    r_pc,           \* position in the loop body
    r_log,          \* the open and sleep calls made so far, in order
    r_result,       \* what _read_race_ini returned or raised
    (* ---- the Session Controller of interceptor/main.py (CtlSpec) ---- *)
    rig_state,          \* AppState.rig_state
    next_player,        \* AppState.next_player
    start_button,       \* the Start Race button: "normal", "disabled", "hidden"
    skip_button,        \* the Skip Player button: "normal", "disabled", "hidden"
    end_button,         \* the End Session button: "shown", "clicked", "hidden"
    ui_queue,           \* RaceInterceptorUI._ui_queue
    after_queue,        \* callbacks handed to window.after, not yet run
    session_tasks,      \* start_session_task threads, not yet run
    window_closed,      \* the window has been destroyed
    sr_pc,              \* _on_start_race: "idle", or the read it is about to make
    sr_id,              \* _on_start_race: player_id, once read
    start_race_raised,  \* a call of _on_start_race has raised
    wd_observer,        \* WatchdogManager._observer: an observer, or 0 for None
    n_observers,        \* Observer objects created so far
    o_state,            \* of each observer: "none", "running", "stopped"
    o_name,             \* of each observer: _player_name of its handler
    o_done,             \* of each observer: _injection_completed of its handler
    o_pc,               \* of each observer: "busy" inside an accepted on_modified call
    o_events,           \* of each observer: events queued, not yet dispatched
    o_accepted,         \* of each observer: its handler has accepted an event
    wd_stop_threads,    \* threads that will call WatchdogManager.stop, not yet run
    wd_stop_started,    \* of each such thread: who started it, after how many observers
    wd_stop_tasks,      \* observers whose stop_observer_task has not yet run
    ini_name,           \* the name the interceptor put into race.ini, if it is there
    o_stop_called,      \* of each observer: WatchdogManager.stop was called for it
    o_notified,         \* of each observer: callbacks its handler has delivered
    launched,           \* the _launch_game calls so far
    ran_on,             \* which function ran on which thread
    n_updates,          \* queue-update events so far
    n_writes,           \* writes of race.ini by other processes so far
    (* ---- wait_for_race_ini_and_inject of start_assetto.py (JoinSpec) ---- *)
    j_timeout,          \* timeout, the argument, in ticks
    j_name,             \* driver_name, the argument
    j_file,             \* the bytes of race.ini
    j_linesep,          \* os.linesep of the platform
    j_clock,            \* ticks since observer.start(), capped
    j_pc,               \* the caller: "waiting", "joining", "returned"
    j_result,           \* the value returned
    j_returned_at,      \* j_clock at the return
    injection_done,     \* the threading.Event
    injection_success,  \* injection_success[0]
    j_observer,         \* the Observer: "running", "stopped", "joined"
    j_evq,              \* events queued, not yet dispatched
    j_last,             \* ticks since last_modified_time, capped at the debounce
    j_hpc,              \* the handler: "idle", "read", "write"
    j_attempt,          \* attempt, the loop variable of modify_race_ini
    j_sleep,            \* ticks left of the handler's time.sleep
    j_lines,            \* modified_lines, local of modify_race_ini
    j_emitted,          \* events the other processes caused so far
    j_ok,               \* modify_race_ini calls that returned True
    j_failed,           \* modify_race_ini calls that returned False
    (* ---- BackendClient._make_request, both copies (HttpSpec) ---- *)
    q_impl,             \* which backend_client.py runs
    q_max_retries,      \* max_retries, the argument
    q_outcomes,         \* what each HTTP attempt will meet
    q_attempt,          \* attempt, the loop variable
    q_pc,               \* position in the loop body
    q_log,              \* the HTTP attempts and sleeps made so far, in order
    q_result,           \* what _make_request returned or raised
    q_session,          \* what start_session made of it
    (* ---- BackendClient._on_queue_update, both copies (QueueSpec) ---- *)
    u_impl,             \* which backend_client.py runs
    u_rig_id,           \* BackendClient.rig_id
    u_state,            \* RigState.state
    u_current_player,   \* RigState.current_player
    u_queue_length,     \* RigState.queue_length
    u_calls,            \* the arguments on_queue_update was invoked with, in order
    u_payload,          \* the rigs of the payload handled last
    (* ---- AssettoCorsaServerJoiner.join_server (JoinServerSpec) ---- *)
    s_config,           \* server_config: of each field, absent, None or set
    s_launch,           \* launch, the argument
    s_pc,               \* position in join_server
    s_effects,          \* what join_server has done so far, in order
    s_result,           \* how join_server ended
    (* ---- RaceInterceptorUI._ui_queue and its polling (UiQueueSpec) ---- *)
    g_queue,            \* RaceInterceptorUI._ui_queue
    g_next,             \* number of the next callback to be scheduled
    g_ran,              \* the callbacks executed so far, each with its thread
    g_pc,               \* the UI thread: "timer" between polls, "loop" inside one
    g_errors,           \* "UI queue poll error" logged so far
    g_closed            \* the window has been destroyed

pvars == <<pfile, pname, plines, pmod, p_kiosk, p_joiner, pfirst, pstage, ppass>>

hvars == <<h_name, elapsed, h_done, pc, attempt, sleep, h_lines, h_modified, cur>>

cvars == <<n_accepted, n_true, n_false, n_complete, n_failed, n_wtries>>

wvars == <<file, mgr_observer, obs_running, evq, hvars, stop_threads, stop_tasks,
           starts, emitted, cvars>>

kvars == <<k_file, k_linesep, k_nickname_var, k_current_racer, k_monitoring, k_observer,
           k_ui, k_evq, k_elapsed, k_pc, k_attempt, k_sleep, k_nick, k_lines,
           k_nickname_set, k_race_count, k_update_timers, k_prepare_timers, k_rewrote,
           k_gaveup, k_emitted, k_accepted>>

rvars == <<r_outcomes, r_attempt, r_pc, r_log, r_result>>

ctlvars == <<rig_state, next_player, start_button, skip_button, end_button, ui_queue,
             after_queue,
             session_tasks, window_closed, sr_pc, sr_id, start_race_raised,
             wd_observer, n_observers, o_state, o_name,
             o_done, o_pc, o_events, o_accepted, wd_stop_threads, wd_stop_started,
             wd_stop_tasks,
             ini_name, o_stop_called, o_notified, launched, ran_on, n_updates,
             n_writes>>

jvars == <<j_timeout, j_name, j_file, j_linesep, j_clock, j_pc, j_result, j_returned_at,
           injection_done, injection_success, j_observer, j_evq, j_last, j_hpc,
           j_attempt, j_sleep, j_lines, j_emitted, j_ok, j_failed>>

qvars == <<q_impl, q_max_retries, q_outcomes, q_attempt, q_pc, q_log, q_result, q_session>>

uvars == <<u_impl, u_rig_id, u_state, u_current_player, u_queue_length, u_calls, u_payload>>

svars == <<s_config, s_launch, s_pc, s_effects, s_result>>

gvars == <<g_queue, g_next, g_ran, g_pc, g_errors, g_closed>>

vars == <<pvars, wvars, kvars, rvars, ctlvars, jvars, qvars, uvars, svars, gvars>>

\* the variables of the other specifications, which a specification leaves alone
notP == <<wvars, kvars, rvars, ctlvars, jvars, qvars, uvars, svars, gvars>>
notW == <<pvars, kvars, rvars, ctlvars, jvars, qvars, uvars, svars, gvars>>
notK == <<pvars, wvars, rvars, ctlvars, jvars, qvars, uvars, svars, gvars>>
notR == <<pvars, wvars, kvars, ctlvars, jvars, qvars, uvars, svars, gvars>>
notC == <<pvars, wvars, kvars, rvars, jvars, qvars, uvars, svars, gvars>>
notJ == <<pvars, wvars, kvars, rvars, ctlvars, qvars, uvars, svars, gvars>>
notQ == <<pvars, wvars, kvars, rvars, ctlvars, jvars, uvars, svars, gvars>>
notU == <<pvars, wvars, kvars, rvars, ctlvars, jvars, qvars, svars, gvars>>
notS == <<pvars, wvars, kvars, rvars, ctlvars, jvars, qvars, uvars, gvars>>
notG == <<pvars, wvars, kvars, rvars, ctlvars, jvars, qvars, uvars, svars>>

(***************************************************************************)
(* Characters                                                              *)
(***************************************************************************)
NUL == "NUL"
BadByte == "xFF"
LF == "\n"
CR == "\r"
SP == " "

\* str.strip() removes leading and trailing whitespace; NUL is not whitespace
Whitespace == {SP, LF, CR, "\t"}

CAR_0 == <<"C", "A", "R", "_", "0">>
REMOTE == <<"R", "E", "M", "O", "T", "E">>
DRIVER_NAME_EQ == <<"D", "R", "I", "V", "E", "R", "_", "N", "A", "M", "E", "=">>
NAME_EQ == <<"N", "A", "M", "E", "=">>

\* current_section: Optional[str] = None
NoSection == <<"None">>

(***************************************************************************)
(* String helpers (Python str methods)                                     *)
(***************************************************************************)
StartsWith(s, p) == Len(s) >= Len(p) /\ SubSeq(s, 1, Len(p)) = p

EndsWith(s, p) == Len(s) >= Len(p) /\ SubSeq(s, Len(s) - Len(p) + 1, Len(s)) = p

RECURSIVE LStrip(_)
LStrip(s) == IF s # <<>> /\ Head(s) \in Whitespace THEN LStrip(Tail(s)) ELSE s

RECURSIVE RStrip(_)
RStrip(s) ==
    IF s # <<>> /\ s[Len(s)] \in Whitespace THEN RStrip(SubSeq(s, 1, Len(s) - 1)) ELSE s

Strip(s) == RStrip(LStrip(s))

IsNotNul(c) == c # NUL

\* mutant: the result of replace() is thrown away
RemoveNul_Discarded(s) == s

\* line.replace("\x00", "")
RemoveNul(s) == SelectSeq(s, IsNotNul)

IsValidByte(b) == b # BadByte

\* content.decode("utf-8", errors="ignore"): invalid bytes are dropped
Decode(bytes) == SelectSeq(bytes, IsValidByte)

\* a lone surrogate is the only character utf-8 cannot encode
IsEncodable(c) == c # "uD800"

\* text.encode("utf-8", errors="ignore")
Encode(text) == SelectSeq(text, IsEncodable)

RECURSIVE JoinFrom(_, _)
JoinFrom(lines, i) == IF i > Len(lines) THEN <<>> ELSE lines[i] \o JoinFrom(lines, i + 1)

\* "".join(lines)
Join(lines) == JoinFrom(lines, 1)

\* str.splitlines(keepends=True): a line ends after "\n", after "\r\n", or
\* after a "\r" that no "\n" follows; a last line may have no terminator
RECURSIVE SplitFrom(_, _, _)
SplitFrom(text, i, acc) ==
    IF i > Len(text) THEN (IF acc = <<>> THEN <<>> ELSE <<acc>>)
    ELSE IF text[i] = LF THEN <<Append(acc, LF)>> \o SplitFrom(text, i + 1, <<>>)
    ELSE IF text[i] = CR THEN
        IF i < Len(text) /\ text[i + 1] = LF
        THEN <<acc \o <<CR, LF>>>> \o SplitFrom(text, i + 2, <<>>)
        ELSE <<Append(acc, CR)>> \o SplitFrom(text, i + 1, <<>>)
    ELSE SplitFrom(text, i + 1, Append(acc, text[i]))

SplitLines(text) == SplitFrom(text, 1, <<>>)

(***************************************************************************)
(* The patcher: RaceIniHandler._modify_lines                               *)
(***************************************************************************)
IsSectionHeader(line) ==
    LET stripped == Strip(line)
    IN  StartsWith(stripped, <<"[">>) /\ EndsWith(stripped, <<"]">>)

\* line.strip()[1:-1]
SectionOf(line) == LET stripped == Strip(line) IN SubSeq(stripped, 2, Len(stripped) - 1)

RECURSIVE Contains(_, _)
Contains(s, p) == Len(s) >= Len(p) /\ (StartsWith(s, p) \/ Contains(Tail(s), p))

\* mutant: the rewritten line loses its "\n"
ProcessLine_NoNewline(line, section, name) ==
    LET stripped == Strip(line)
    IN  IF section = CAR_0 /\ StartsWith(stripped, DRIVER_NAME_EQ)
        THEN DRIVER_NAME_EQ \o name
        ELSE IF section = REMOTE /\ StartsWith(stripped, NAME_EQ)
        THEN NAME_EQ \o name
        ELSE line

\* mutant: the key is looked for anywhere in the line
ProcessLine_KeyContains(line, section, name) ==
    LET stripped == Strip(line)
    IN  IF section = CAR_0 /\ Contains(stripped, DRIVER_NAME_EQ)
        THEN DRIVER_NAME_EQ \o name \o <<LF>>
        ELSE IF section = REMOTE /\ Contains(stripped, NAME_EQ)
        THEN NAME_EQ \o name \o <<LF>>
        ELSE line

\* mutant: an untouched line is emitted trimmed, with a "\n" terminator
ProcessLine_Normalises(line, section, name) ==
    LET stripped == Strip(line)
    IN  IF section = CAR_0 /\ StartsWith(stripped, DRIVER_NAME_EQ)
        THEN DRIVER_NAME_EQ \o name \o <<LF>>
        ELSE IF section = REMOTE /\ StartsWith(stripped, NAME_EQ)
        THEN NAME_EQ \o name \o <<LF>>
        ELSE stripped \o <<LF>>

ProcessLine(line, section, name) ==
    LET stripped == Strip(line)
    IN  IF section = CAR_0 /\ StartsWith(stripped, DRIVER_NAME_EQ)
        THEN DRIVER_NAME_EQ \o name \o <<LF>>
        ELSE IF section = REMOTE /\ StartsWith(stripped, NAME_EQ)
        THEN NAME_EQ \o name \o <<LF>>
        ELSE line

\* mutant: the scan forgets its section after the first line it rewrites
RECURSIVE ModifyFrom_FirstOnly(_, _, _, _)
ModifyFrom_FirstOnly(lines, i, section, name) ==
    IF i > Len(lines) THEN <<>>
    ELSE LET line == RemoveNul(lines[i])
             out == ProcessLine(line, section, name)
         IN  IF IsSectionHeader(line)
             THEN <<line>> \o ModifyFrom_FirstOnly(lines, i + 1, SectionOf(line), name)
             ELSE <<out>> \o ModifyFrom_FirstOnly(lines, i + 1,
                                  IF out = line THEN section ELSE NoSection, name)

RECURSIVE ModifyFrom(_, _, _, _)
ModifyFrom(lines, i, section, name) ==
    IF i > Len(lines) THEN <<>>
    ELSE LET line == RemoveNul(lines[i])
         IN  IF IsSectionHeader(line)
             THEN <<line>> \o ModifyFrom(lines, i + 1, SectionOf(line), name)
             ELSE <<ProcessLine(line, section, name)>>
                      \o ModifyFrom(lines, i + 1, section, name)

\* mutant: a document without [CAR_0] gets one appended
ModifyLines_AddsMissing(lines, name) ==
    LET out == ModifyFrom(lines, 1, NoSection, name)
    IN  IF \E i \in 1..Len(lines) : IsSectionHeader(lines[i]) /\ SectionOf(lines[i]) = CAR_0
        THEN out
        ELSE out \o << <<"[">> \o CAR_0 \o <<"]", LF>>, DRIVER_NAME_EQ \o name \o <<LF>> >>

ModifyLines(lines, name) == ModifyFrom(lines, 1, NoSection, name)

\* mutant: the line is tested and kept with its NUL characters
RECURSIVE KioskModifyFrom_KeepsNul(_, _, _, _)
KioskModifyFrom_KeepsNul(lines, i, current_section, nickname) ==
    IF i > Len(lines) THEN <<>>
    ELSE LET line == lines[i]
         IN  IF StartsWith(Strip(line), <<"[">>) /\ EndsWith(Strip(line), <<"]">>)
             THEN <<line>> \o KioskModifyFrom_KeepsNul(lines, i + 1,
                                  SubSeq(Strip(line), 2, Len(Strip(line)) - 1), nickname)
             ELSE (IF current_section = CAR_0 /\ StartsWith(Strip(line), DRIVER_NAME_EQ)
                   THEN << DRIVER_NAME_EQ \o nickname \o <<LF>> >>
                   ELSE IF current_section = REMOTE /\ StartsWith(Strip(line), NAME_EQ)
                   THEN << NAME_EQ \o nickname \o <<LF>> >>
                   ELSE <<line>>)
                  \o KioskModifyFrom_KeepsNul(lines, i + 1, current_section, nickname)

\* the loop of RaceIniHandler.modify_race_ini in ac_nickname_interceptor.py,
\* from line number i on
RECURSIVE KioskModifyFrom(_, _, _, _)
KioskModifyFrom(lines, i, current_section, nickname) ==
    IF i > Len(lines) THEN <<>>
    ELSE LET line == RemoveNul(lines[i])
         IN  IF StartsWith(Strip(line), <<"[">>) /\ EndsWith(Strip(line), <<"]">>)
             THEN <<line>> \o KioskModifyFrom(lines, i + 1,
                                  SubSeq(Strip(line), 2, Len(Strip(line)) - 1), nickname)
             ELSE (IF current_section = CAR_0 /\ StartsWith(Strip(line), DRIVER_NAME_EQ)
                   THEN << DRIVER_NAME_EQ \o nickname \o <<LF>> >>
                   ELSE IF current_section = REMOTE /\ StartsWith(Strip(line), NAME_EQ)
                   THEN << NAME_EQ \o nickname \o <<LF>> >>
                   ELSE <<line>>)
                  \o KioskModifyFrom(lines, i + 1, current_section, nickname)

KioskModifyLines(lines, nickname) == KioskModifyFrom(lines, 1, NoSection, nickname)

\* the loop of AssettoCorsaServerJoiner.modify_race_ini in start_assetto.py
RECURSIVE JoinerModifyFrom(_, _, _, _)
JoinerModifyFrom(lines, i, current_section, driver_name) ==
    IF i > Len(lines) THEN <<>>
    ELSE LET line == RemoveNul(lines[i])
         IN  IF StartsWith(Strip(line), <<"[">>) /\ EndsWith(Strip(line), <<"]">>)
             THEN <<line>> \o JoinerModifyFrom(lines, i + 1,
                                  SubSeq(Strip(line), 2, Len(Strip(line)) - 1), driver_name)
             ELSE (IF current_section = CAR_0 /\ StartsWith(Strip(line), DRIVER_NAME_EQ)
                   THEN << DRIVER_NAME_EQ \o driver_name \o <<LF>> >>
                   ELSE IF current_section = REMOTE /\ StartsWith(Strip(line), NAME_EQ)
                   THEN << NAME_EQ \o driver_name \o <<LF>> >>
                   ELSE <<line>>)
                  \o JoinerModifyFrom(lines, i + 1, current_section, driver_name)

JoinerModifyLines(lines, driver_name) == JoinerModifyFrom(lines, 1, NoSection, driver_name)

\* _read_race_ini, on an attempt that succeeds
ReadLines(bytes) == SplitLines(Decode(bytes))

\* the content _write_race_ini prepares
WriteContent(lines) == Encode(Join(lines))

(***************************************************************************)
(* Inputs of the patcher pipeline                                          *)
(***************************************************************************)
MaxPieces == 3

Pieces ==
    { <<"[">> \o CAR_0 \o <<"]", LF>> \o DRIVER_NAME_EQ \o <<"x", LF>>,
      <<"[">> \o REMOTE \o <<"]", CR, LF>> \o NAME_EQ \o <<"x", CR, LF>>,
      <<"[", "c", "a", "r", "_", "0", "]", LF>>,
      DRIVER_NAME_EQ \o <<"x", LF>>,
      <<"S", "E", "R", "V", "E", "R", "_">> \o NAME_EQ \o <<"x", LF>>,
      <<"D", "R", "I", "V", "E", "R", NUL, "_", "N", "A", "M", "E", "=", "x", LF>>,
      <<SP>> \o NAME_EQ \o <<"x">>,
      <<NUL>>,
      <<CR>>,
      <<"y", BadByte, LF>> }

RECURSIVE DocsUpTo(_)
DocsUpTo(n) ==
    IF n = 0 THEN {<<>>}
    ELSE LET shorter == DocsUpTo(n - 1)
         IN  shorter \cup {d \o p : d \in shorter, p \in Pieces}

\* the bytes race.ini may hold: up to MaxPieces pieces, one after the other
Docs == DocsUpTo(MaxPieces)

\* player names: single-line text without NUL
Names == { <<"A">>, <<"[", "B", "]", "=", SP>> }

(***************************************************************************)
(* One watch session: WatchdogManager and RaceIniHandler.on_modified       *)
(*                                                                         *)
(* The clock is kept as the time elapsed since the handler last accepted   *)
(* an event, counted up to MaxElapsed: the debounce test reads nothing     *)
(* else of it.  _last_modified_time = 0 is a time long past.               *)
(***************************************************************************)
\* TimingConfig, in ticks of 50 ms
DEBOUNCE_SECONDS == 10
FILE_WRITE_DELAY_SECONDS == 6
FILE_RETRY_DELAY_SECONDS == 3
MAX_FILE_RETRIES == 8

MaxEvents == 2
MaxStarts == 2

\* 600 ms, past the debounce window
SixHundredMs == DEBOUNCE_SECONDS + 2

MaxElapsed == SixHundredMs

RACE_INI == <<"r", "a", "c", "e", ".", "i", "n", "i">>
CfgDir == <<"c", "f", "g", "/">>

\* What the watched directory reports.  gap and after are not part of the
\* watchdog event: they record when it was emitted, as the time elapsed since
\* the handler's latest accepted event and the number of that event.
RaceIniEvent(gap, after) ==
    [is_directory |-> FALSE, src_path |-> CfgDir \o RACE_INI, gap |-> gap, after |-> after]

NoEvent == [is_directory |-> FALSE, src_path |-> <<>>, gap |-> 0, after |-> 0]

OtherEvents ==
    { [is_directory |-> FALSE, src_path |-> CfgDir \o <<"v", ".", "i", "n", "i">>,
       gap |-> MaxElapsed, after |-> 0],
      [is_directory |-> TRUE, src_path |-> CfgDir \o <<"d">>,
       gap |-> MaxElapsed, after |-> 0] }

DocFull ==
    <<"[">> \o CAR_0 \o <<"]", LF>> \o DRIVER_NAME_EQ \o <<"x", LF>>
        \o <<"[">> \o REMOTE \o <<"]", CR, LF>> \o NAME_EQ \o <<"x", CR, LF>>
DocNoTarget ==
    <<"[", "c", "a", "r", "_", "0", "]", LF>> \o DRIVER_NAME_EQ \o <<"x", NUL, CR, LF>>
DocEmpty == <<>>

\* what Content Manager may have written to race.ini
FileDocs == {DocFull, DocNoTarget, DocEmpty}

WInit ==
    /\ file \in FileDocs
    /\ mgr_observer = FALSE
    /\ obs_running = FALSE
    /\ evq = <<>>
    /\ h_name = <<>>
    /\ elapsed = MaxElapsed
    /\ h_done = FALSE
    /\ pc = "idle"
    /\ attempt = 0
    /\ sleep = 0
    /\ h_lines = <<>>
    /\ h_modified = <<>>
    /\ cur = NoEvent
    /\ stop_threads = 0
    /\ stop_tasks = 0
    /\ starts = 0
    /\ emitted = 0
    /\ n_accepted = 0 /\ n_true = 0 /\ n_false = 0 /\ n_complete = 0 /\ n_failed = 0
    /\ n_wtries = 0

\* WatchdogManager.start, called when no observer of an earlier session is left
Start(name) ==
    /\ starts < MaxStarts
    /\ ~mgr_observer /\ ~obs_running /\ stop_threads = 0 /\ stop_tasks = 0
    /\ pc = "idle"
    /\ starts' = starts + 1
    /\ h_name' = name
    /\ elapsed' = MaxElapsed
    /\ h_done' = FALSE
    /\ mgr_observer' = TRUE
    /\ obs_running' = TRUE
    /\ evq' = <<>>
    /\ cur' = NoEvent
    /\ n_accepted' = 0 /\ n_true' = 0 /\ n_false' = 0 /\ n_complete' = 0 /\ n_failed' = 0
    /\ n_wtries' = 0
    /\ UNCHANGED <<file, pc, attempt, sleep, h_lines, h_modified, stop_threads,
                   stop_tasks, emitted>>
    /\ UNCHANGED notW

\* the thread of _on_injection_complete runs WatchdogManager.stop(join=True)
StopCall ==
    /\ stop_threads > 0
    /\ stop_threads' = stop_threads - 1
    /\ IF mgr_observer
       THEN mgr_observer' = FALSE /\ stop_tasks' = stop_tasks + 1
       ELSE UNCHANGED <<mgr_observer, stop_tasks>>
    /\ UNCHANGED <<file, obs_running, evq, hvars, starts, emitted, cvars>>
    /\ UNCHANGED notW

\* stop_observer_task: observer_to_stop.stop(); no event is dispatched after it
StopTask ==
    /\ stop_tasks > 0
    /\ stop_tasks' = stop_tasks - 1
    /\ obs_running' = FALSE
    /\ UNCHANGED <<file, mgr_observer, evq, hvars, stop_threads, starts, emitted, cvars>>
    /\ UNCHANGED notW

\* the observer queues an event only while it runs
Emit(q, e) == IF obs_running THEN Append(q, e) ELSE q

\* Content Manager (or anything else) rewrites race.ini
ExternalWrite(doc) ==
    /\ emitted < MaxEvents
    /\ emitted' = emitted + 1
    /\ file' = doc
    /\ evq' = Emit(evq, RaceIniEvent(elapsed, n_accepted))
    /\ UNCHANGED <<mgr_observer, obs_running, hvars, stop_threads, stop_tasks, starts,
                   cvars>>
    /\ UNCHANGED notW

\* something else changes in the watched directory
OtherChange(e) ==
    /\ emitted < MaxEvents
    /\ obs_running
    /\ emitted' = emitted + 1
    /\ evq' = Append(evq, e)
    /\ UNCHANGED <<file, mgr_observer, obs_running, hvars, stop_threads, stop_tasks,
                   starts, cvars>>
    /\ UNCHANGED notW

\* one tick of time passes
Tick ==
    /\ elapsed < MaxElapsed \/ sleep > 0
    /\ elapsed' = IF elapsed < MaxElapsed THEN elapsed + 1 ELSE elapsed
    /\ sleep' = IF sleep > 0 THEN sleep - 1 ELSE 0
    /\ UNCHANGED <<file, mgr_observer, obs_running, evq, h_name, h_done, pc, attempt,
                   h_lines, h_modified, cur, stop_threads, stop_tasks, starts, emitted,
                   cvars>>
    /\ UNCHANGED notW

\* mutant: the handler forgets that it has injected
Ignored_NoCompletedFlag(e, done) == e.is_directory \/ ~EndsWith(e.src_path, RACE_INI)

\* on_modified, the early returns before the debounce
Ignored(e, done) == e.is_directory \/ done \/ ~EndsWith(e.src_path, RACE_INI)

\* _should_process_event, given current_time - self._last_modified_time
ShouldProcessEvent(since_last) == ~(since_last < DEBOUNCE_SECONDS)

\* the observer thread takes the next event and calls on_modified, which
\* returns at once or starts the settle sleep
Dispatch ==
    /\ obs_running
    /\ pc = "idle"
    /\ evq # <<>>
    /\ evq' = Tail(evq)
    /\ cur' = Head(evq)
    /\ IF ~Ignored(Head(evq), h_done) /\ ShouldProcessEvent(elapsed)
       THEN /\ elapsed' = 0
            /\ pc' = "settle"
            /\ sleep' = FILE_WRITE_DELAY_SECONDS
            /\ n_accepted' = n_accepted + 1
       ELSE UNCHANGED <<elapsed, pc, sleep, n_accepted>>
    /\ UNCHANGED <<file, mgr_observer, obs_running, h_name, h_done, attempt, h_lines,
                   h_modified, stop_threads, stop_tasks, starts, emitted, n_true,
                   n_false, n_complete, n_failed, n_wtries>>
    /\ UNCHANGED notW

\* mutant: a failed injection is marked complete as well
InjectionFailed_MarksComplete ==
    /\ pc' = "idle"
    /\ n_false' = n_false + 1
    /\ n_failed' = n_failed + 1
    /\ h_done' = TRUE
    /\ UNCHANGED <<n_true, n_complete, stop_threads>>

\* on_modified after _inject_player_name returned False: the failed callback,
\* _on_injection_failed, which only changes a label
InjectionFailed ==
    /\ pc' = "idle"
    /\ n_false' = n_false + 1
    /\ n_failed' = n_failed + 1
    /\ UNCHANGED <<h_done, n_true, n_complete, stop_threads>>

\* mutant: the flag is not set after a successful injection
InjectionSucceeded_FlagNotSet ==
    /\ pc' = "idle"
    /\ n_true' = n_true + 1
    /\ n_complete' = n_complete + 1
    /\ stop_threads' = stop_threads + 1
    /\ UNCHANGED <<h_done, n_false, n_failed>>

\* on_modified after _inject_player_name returned True: the flag, then the
\* completion callback, which starts the thread that stops the watchdog
InjectionSucceeded ==
    /\ pc' = "idle"
    /\ n_true' = n_true + 1
    /\ h_done' = TRUE
    /\ n_complete' = n_complete + 1
    /\ stop_threads' = stop_threads + 1
    /\ UNCHANGED <<n_false, n_failed>>

\* the attempt number of the read loop: the settle sleep precedes attempt 0
ReadAttemptNo == IF pc = "settle" THEN 0 ELSE attempt

\* a read attempt that succeeds, followed by _modify_lines
ReadOk ==
    /\ pc \in {"settle", "read"}
    /\ sleep = 0
    /\ h_lines' = ReadLines(file)
    /\ h_modified' = ModifyLines(ReadLines(file), h_name)
    /\ pc' = "write"
    /\ attempt' = 0
    /\ n_wtries' = 0
    /\ UNCHANGED <<file, mgr_observer, obs_running, evq, h_name, cur, elapsed, h_done,
                   sleep, stop_threads, stop_tasks, starts, emitted, n_accepted, n_true,
                   n_false, n_complete, n_failed>>
    /\ UNCHANGED notW

\* a read attempt that raises: sleep and retry, or give up after the last
ReadFail ==
    /\ pc \in {"settle", "read"}
    /\ sleep = 0
    /\ IF ReadAttemptNo < MAX_FILE_RETRIES - 1
       THEN /\ pc' = "read"
            /\ attempt' = ReadAttemptNo + 1
            /\ sleep' = FILE_RETRY_DELAY_SECONDS
            /\ UNCHANGED <<h_done, stop_threads, n_true, n_false, n_complete, n_failed>>
       ELSE /\ InjectionFailed
            /\ UNCHANGED <<attempt, sleep>>
    /\ UNCHANGED <<file, mgr_observer, obs_running, evq, h_name, cur, elapsed, h_lines,
                   h_modified, stop_tasks, starts, emitted, n_accepted, n_wtries>>
    /\ UNCHANGED notW

\* a write attempt that succeeds; the observer sees this write as well
WriteOk ==
    /\ pc = "write"
    /\ sleep = 0
    /\ file' = WriteContent(h_modified)
    /\ evq' = Emit(evq, RaceIniEvent(elapsed, n_accepted))
    /\ InjectionSucceeded
    /\ n_wtries' = n_wtries + 1
    /\ UNCHANGED <<mgr_observer, obs_running, h_name, cur, elapsed, attempt, sleep,
                   h_lines, h_modified, stop_tasks, starts, emitted, n_accepted>>
    /\ UNCHANGED notW

\* mutant: the first failed write attempt ends the injection
WriteFail_NoRetry ==
    /\ pc = "write"
    /\ sleep = 0
    /\ n_wtries' = n_wtries + 1
    /\ InjectionFailed
    /\ UNCHANGED <<attempt, sleep>>
    /\ UNCHANGED <<file, mgr_observer, obs_running, evq, h_name, cur, elapsed, h_lines,
                   h_modified, stop_tasks, starts, emitted, n_accepted>>
    /\ UNCHANGED notW

\* a write attempt that raises: sleep and retry, or give up after the last
WriteFail ==
    /\ pc = "write"
    /\ sleep = 0
    /\ n_wtries' = n_wtries + 1
    /\ IF attempt < MAX_FILE_RETRIES - 1
       THEN /\ attempt' = attempt + 1
            /\ sleep' = FILE_RETRY_DELAY_SECONDS
            /\ UNCHANGED <<pc, h_done, stop_threads, n_true, n_false, n_complete,
                           n_failed>>
       ELSE /\ InjectionFailed
            /\ UNCHANGED <<attempt, sleep>>
    /\ UNCHANGED <<file, mgr_observer, obs_running, evq, h_name, cur, elapsed, h_lines,
                   h_modified, stop_tasks, starts, emitted, n_accepted>>
    /\ UNCHANGED notW

WNext ==
    \/ \E name \in Names : Start(name)
    \/ StopCall
    \/ StopTask
    \/ \E doc \in FileDocs : ExternalWrite(doc)
    \/ \E e \in OtherEvents : OtherChange(e)
    \/ Tick
    \/ Dispatch
    \/ ReadOk
    \/ ReadFail
    \/ WriteOk
    \/ WriteFail

(***************************************************************************)
(* The kiosk: NicknameInterceptorUI and its RaceIniHandler                 *)
(* (src/ac_nickname_interceptor.py).  One observer is started in the       *)
(* background and stopped when the window is closed.                       *)
(***************************************************************************)
\* the literals of on_modified and modify_race_ini, in ticks of 50 ms
KIOSK_DEBOUNCE == 10
KIOSK_SETTLE == 3
KIOSK_RETRY_DELAY == 2
max_retries == 5

MaxKioskEvents == 2
MaxAccepted == 2

KMaxElapsed == KIOSK_DEBOUNCE

\* what Content Manager leaves in race.ini
KFileDocs == {DocFull, DocEmpty}

\* what a visitor types into the entry field
KTyped == { <<SP, "B">>, <<SP>> }

\* universal newlines of a file opened in text mode for reading
RECURSIVE TranslateFrom(_, _)
TranslateFrom(text, i) ==
    IF i > Len(text) THEN <<>>
    ELSE IF text[i] = CR
         THEN IF i < Len(text) /\ text[i + 1] = LF
              THEN <<LF>> \o TranslateFrom(text, i + 2)
              ELSE <<LF>> \o TranslateFrom(text, i + 1)
         ELSE <<text[i]>> \o TranslateFrom(text, i + 1)

\* open(path, 'r', encoding='utf-8', errors='ignore') and f.readlines()
KioskReadLines(bytes) == SplitLines(TranslateFrom(Decode(bytes), 1))

\* a file opened in text mode for writing turns "\n" into os.linesep
RECURSIVE LinesepFrom(_, _, _)
LinesepFrom(text, i, linesep) ==
    IF i > Len(text) THEN <<>>
    ELSE (IF text[i] = LF THEN linesep ELSE <<text[i]>>) \o LinesepFrom(text, i + 1, linesep)

\* open(path, 'w', encoding='utf-8', errors='ignore') and f.writelines(lines)
KioskWriteContent(lines, linesep) == Encode(LinesepFrom(Join(lines), 1, linesep))

\* get_current_nickname
GetCurrentNickname ==
    IF k_current_racer # <<>> THEN k_current_racer ELSE Strip(k_nickname_var)

kuivars == <<k_nickname_var, k_current_racer, k_monitoring, k_ui>>
khvars == <<k_elapsed, k_pc, k_attempt, k_sleep, k_nick, k_lines>>
kcvars == <<k_nickname_set, k_race_count, k_update_timers, k_rewrote, k_gaveup>>

KInit ==
    /\ k_file \in KFileDocs
    /\ k_linesep \in { <<LF>>, <<CR, LF>> }
    /\ k_nickname_var = <<>>
    /\ k_current_racer = <<>>
    /\ k_monitoring = FALSE
    /\ k_observer = "none"
    /\ k_ui = "launch"
    /\ k_evq = <<>>
    /\ k_elapsed = KMaxElapsed
    /\ k_pc = "idle"
    /\ k_attempt = 0
    /\ k_sleep = 0
    /\ k_nick = <<>>
    /\ k_lines = <<>>
    /\ k_nickname_set = FALSE
    /\ k_race_count = 0
    /\ k_update_timers = 0
    /\ k_prepare_timers = 0
    /\ k_rewrote = 0
    /\ k_gaveup = 0
    /\ k_emitted = 0
    /\ k_accepted = 0

\* start_monitoring_silent
StartMonitoringSilent ==
    IF k_monitoring
    THEN UNCHANGED <<k_monitoring, k_observer>>
    ELSE k_observer' = "running" /\ k_monitoring' = TRUE

\* auto_start_monitoring, the timer set by __init__
KAutoStart ==
    /\ k_ui = "launch"
    /\ k_ui' = "mainloop"
    /\ StartMonitoringSilent
    /\ UNCHANGED <<k_file, k_linesep, k_nickname_var, k_current_racer, k_evq, khvars,
                   kcvars, k_prepare_timers, k_emitted, k_accepted>>
    /\ UNCHANGED notK

\* the visitor edits the entry field
KType(text) ==
    /\ k_ui \in {"launch", "mainloop"}
    /\ k_nickname_var # text
    /\ k_nickname_var' = text
    /\ UNCHANGED <<k_file, k_linesep, k_current_racer, k_monitoring, k_observer, k_ui,
                   k_evq, khvars, kcvars, k_prepare_timers, k_emitted, k_accepted>>
    /\ UNCHANGED notK

\* register_player
KRegister ==
    /\ k_ui \in {"launch", "mainloop"}
    /\ IF Strip(k_nickname_var) = <<>>
       THEN UNCHANGED <<k_current_racer, k_monitoring, k_observer>>
       ELSE /\ k_current_racer' = Strip(k_nickname_var)
            /\ StartMonitoringSilent
    /\ UNCHANGED <<k_file, k_linesep, k_nickname_var, k_ui, k_evq, khvars, kcvars,
                   k_prepare_timers, k_emitted, k_accepted>>
    /\ UNCHANGED notK

\* update_after_race_start, the timer set by on_race_started
KUpdateAfterRaceStart ==
    /\ k_ui = "mainloop"
    /\ k_update_timers > 0
    /\ k_update_timers' = k_update_timers - 1
    /\ k_prepare_timers' = k_prepare_timers + 1
    /\ UNCHANGED <<k_file, k_linesep, kuivars, k_observer, k_evq, khvars, k_nickname_set,
                   k_race_count, k_rewrote, k_gaveup, k_emitted, k_accepted>>
    /\ UNCHANGED notK

\* prepare_for_next_player, the timer set by update_after_race_start
KPrepareForNextPlayer ==
    /\ k_ui = "mainloop"
    /\ k_prepare_timers > 0
    /\ k_prepare_timers' = k_prepare_timers - 1
    /\ k_current_racer' = <<>>
    /\ k_nickname_var' = <<>>
    /\ UNCHANGED <<k_file, k_linesep, k_monitoring, k_observer, k_ui, k_evq, khvars,
                   kcvars, k_emitted, k_accepted>>
    /\ UNCHANGED notK

\* the observer queues an event only while it runs
KEmit(q, e) == IF k_observer = "running" THEN Append(q, e) ELSE q

\* Content Manager (or anything else) rewrites race.ini
KExternalWrite(doc) ==
    /\ k_emitted < MaxKioskEvents
    /\ k_emitted' = k_emitted + 1
    /\ k_file' = doc
    /\ k_evq' = KEmit(k_evq, RaceIniEvent(0, 0))
    /\ UNCHANGED <<k_linesep, kuivars, k_observer, khvars, kcvars, k_prepare_timers,
                   k_accepted>>
    /\ UNCHANGED notK

\* something else changes in the watched directory
KOtherChange(e) ==
    /\ k_emitted < MaxKioskEvents
    /\ k_observer = "running"
    /\ k_emitted' = k_emitted + 1
    /\ k_evq' = Append(k_evq, e)
    /\ UNCHANGED <<k_file, k_linesep, kuivars, k_observer, khvars, kcvars,
                   k_prepare_timers, k_accepted>>
    /\ UNCHANGED notK

\* one tick of time passes
KTick ==
    /\ k_elapsed < KMaxElapsed \/ k_sleep > 0
    /\ k_elapsed' = IF k_elapsed < KMaxElapsed THEN k_elapsed + 1 ELSE k_elapsed
    /\ k_sleep' = IF k_sleep > 0 THEN k_sleep - 1 ELSE 0
    /\ UNCHANGED <<k_file, k_linesep, kuivars, k_observer, k_evq, k_pc, k_attempt, k_nick,
                   k_lines, kcvars, k_prepare_timers, k_emitted, k_accepted>>
    /\ UNCHANGED notK

\* the observer thread takes the next event and calls on_modified, which
\* returns at once or starts the settle sleep
KDispatch ==
    /\ k_observer = "running"
    /\ k_pc = "idle"
    /\ k_evq # <<>>
    /\ k_accepted < MaxAccepted
    /\ k_evq' = Tail(k_evq)
    /\ IF /\ ~Head(k_evq).is_directory
          /\ EndsWith(Head(k_evq).src_path, RACE_INI)
          /\ ~(k_elapsed < KIOSK_DEBOUNCE)
       THEN /\ k_elapsed' = 0
            /\ k_pc' = "settle"
            /\ k_sleep' = KIOSK_SETTLE
            /\ k_accepted' = k_accepted + 1
       ELSE UNCHANGED <<k_elapsed, k_pc, k_sleep, k_accepted>>
    /\ UNCHANGED <<k_file, k_linesep, kuivars, k_observer, k_attempt, k_nick, k_lines,
                   kcvars, k_prepare_timers, k_emitted>>
    /\ UNCHANGED notK

\* on_race_started, the on_complete callback of the handler
OnRaceStarted ==
    /\ k_nickname_set' = TRUE
    /\ k_race_count' = k_race_count + 1
    /\ k_update_timers' = k_update_timers + 1

\* on_modified after the settle sleep: the nickname is fetched, and without
\* one the handler returns
KGetNickname ==
    /\ k_pc = "settle"
    /\ k_sleep = 0
    /\ k_nick' = GetCurrentNickname
    /\ k_attempt' = 0
    /\ k_pc' = IF GetCurrentNickname = <<>> THEN "idle" ELSE "read"
    /\ UNCHANGED <<k_file, k_linesep, kuivars, k_observer, k_evq, k_elapsed, k_sleep,
                   k_lines, kcvars, k_prepare_timers, k_emitted, k_accepted>>
    /\ UNCHANGED notK

\* modify_race_ini: a read attempt that succeeds, followed by the patch loop
KReadOk ==
    /\ k_pc = "read"
    /\ k_sleep = 0
    /\ k_lines' = KioskModifyLines(KioskReadLines(k_file), k_nick)
    /\ k_pc' = "write"
    /\ k_attempt' = 0
    /\ UNCHANGED <<k_file, k_linesep, kuivars, k_observer, k_evq, k_elapsed, k_sleep,
                   k_nick, kcvars, k_prepare_timers, k_emitted, k_accepted>>
    /\ UNCHANGED notK

\* modify_race_ini swallowed the error of the last attempt; on_modified goes
\* on to the callback
KGaveUp ==
    /\ k_pc' = "idle"
    /\ k_gaveup' = k_gaveup + 1
    /\ OnRaceStarted
    /\ UNCHANGED <<k_attempt, k_sleep, k_rewrote>>

\* one more attempt after the retry sleep
KRetry ==
    /\ k_attempt' = k_attempt + 1
    /\ k_sleep' = KIOSK_RETRY_DELAY
    /\ UNCHANGED <<k_pc, kcvars>>

\* modify_race_ini: a read attempt that raises
KReadFail ==
    /\ k_pc = "read"
    /\ k_sleep = 0
    /\ IF k_attempt < max_retries - 1 THEN KRetry ELSE KGaveUp
    /\ UNCHANGED <<k_file, k_linesep, kuivars, k_observer, k_evq, k_elapsed, k_nick,
                   k_lines, k_prepare_timers, k_emitted, k_accepted>>
    /\ UNCHANGED notK

\* modify_race_ini: a write attempt that succeeds; the observer sees this
\* write as well; on_modified goes on to the callback
KWriteOk ==
    /\ k_pc = "write"
    /\ k_sleep = 0
    /\ k_file' = KioskWriteContent(k_lines, k_linesep)
    /\ k_evq' = KEmit(k_evq, RaceIniEvent(0, 0))
    /\ k_pc' = "idle"
    /\ k_rewrote' = k_rewrote + 1
    /\ OnRaceStarted
    /\ UNCHANGED <<k_linesep, kuivars, k_observer, k_elapsed, k_attempt, k_sleep, k_nick,
                   k_lines, k_gaveup, k_prepare_timers, k_emitted, k_accepted>>
    /\ UNCHANGED notK

\* modify_race_ini: a write attempt that raises
KWriteFail ==
    /\ k_pc = "write"
    /\ k_sleep = 0
    /\ IF k_attempt < max_retries - 1 THEN KRetry ELSE KGaveUp
    /\ UNCHANGED <<k_file, k_linesep, kuivars, k_observer, k_evq, k_elapsed, k_nick,
                   k_lines, k_prepare_timers, k_emitted, k_accepted>>
    /\ UNCHANGED notK

\* modify_race_ini: an open, read or write call that blocks and does not
\* come back
KIoHangs ==
    /\ k_pc \in {"read", "write"}
    /\ k_sleep = 0
    /\ k_pc' = "hung"
    /\ UNCHANGED <<k_file, k_linesep, kuivars, k_observer, k_evq, k_elapsed, k_attempt,
                   k_sleep, k_nick, k_lines, kcvars, k_prepare_timers, k_emitted,
                   k_accepted>>
    /\ UNCHANGED notK

\* on_closing up to observer.join(): stop_monitoring stops the observer
KClosing ==
    /\ k_ui = "mainloop"
    /\ IF k_observer = "running"
       THEN k_observer' = "stopping" /\ k_ui' = "joining" /\ UNCHANGED k_monitoring
       ELSE k_monitoring' = FALSE /\ k_ui' = "destroyed" /\ UNCHANGED k_observer
    /\ UNCHANGED <<k_file, k_linesep, k_nickname_var, k_current_racer, k_evq, khvars,
                   kcvars, k_prepare_timers, k_emitted, k_accepted>>
    /\ UNCHANGED notK

\* observer.join() returns once the observer thread has left on_modified;
\* the rest of stop_monitoring and of on_closing follows
KJoined ==
    /\ k_ui = "joining"
    /\ k_pc = "idle"
    /\ k_observer' = "none"
    /\ k_monitoring' = FALSE
    /\ k_ui' = "destroyed"
    /\ UNCHANGED <<k_file, k_linesep, k_nickname_var, k_current_racer, k_evq, khvars,
                   kcvars, k_prepare_timers, k_emitted, k_accepted>>
    /\ UNCHANGED notK

KNext ==
    \/ KAutoStart
    \/ \E text \in KTyped : KType(text)
    \/ KRegister
    \/ KUpdateAfterRaceStart
    \/ KPrepareForNextPlayer
    \/ \E doc \in KFileDocs : KExternalWrite(doc)
    \/ \E e \in OtherEvents : KOtherChange(e)
    \/ KTick
    \/ KDispatch
    \/ KGetNickname
    \/ KReadOk
    \/ KReadFail
    \/ KWriteOk
    \/ KWriteFail
    \/ KIoHangs
    \/ KClosing
    \/ KJoined

\* the kiosk stands still in the other specifications
KIdle ==
    /\ k_file = <<>> /\ k_linesep = <<LF>> /\ k_nickname_var = <<>>
    /\ k_current_racer = <<>> /\ k_monitoring = FALSE /\ k_observer = "none"
    /\ k_ui = "off" /\ k_evq = <<>> /\ k_elapsed = 0 /\ k_pc = "off" /\ k_attempt = 0
    /\ k_sleep = 0 /\ k_nick = <<>> /\ k_lines = <<>> /\ k_nickname_set = FALSE
    /\ k_race_count = 0 /\ k_update_timers = 0 /\ k_prepare_timers = 0
    /\ k_rewrote = 0 /\ k_gaveup = 0 /\ k_emitted = 0 /\ k_accepted = 0

(***************************************************************************)
(* The retry loop of RaceIniHandler._read_race_ini on its own, run over    *)
(* every sequence of outcomes of the open/read attempts                    *)
(***************************************************************************)
\* what one attempt can do: succeed, or raise one of the caught errors
Outcomes == {"ok", "PermissionError", "OSError"}

OutcomeSeqs == [1..MAX_FILE_RETRIES -> Outcomes]

\* text.splitlines(keepends=True) of what attempt number a found in the file
ContentAt(a) == <<"lines", a>>

\* the exception raised by attempt number a
ErrorAt(outcomes, a) == <<outcomes[a + 1], a>>

OpOpen(a) == [op |-> "open", arg |-> a]
OpSleep(d) == [op |-> "sleep", arg |-> d]

Returned(v) == [kind |-> "return", value |-> v]
Raised(e) == [kind |-> "raise", value |-> e]
Running == [kind |-> "none", value |-> <<>>]

\* mutant: the last attempt is given up one attempt early
MayRetry_OneLess(a) == a < MAX_FILE_RETRIES - 2

\* the test of the except branch: sleep and go round again, or re-raise
MayRetry(a) == a < MAX_FILE_RETRIES - 1

RInit ==
    /\ r_outcomes \in OutcomeSeqs
    /\ r_attempt = 0
    /\ r_pc = "try"
    /\ r_log = <<>>
    /\ r_result = Running

\* one pass through the try block of the loop body
RAttempt ==
    /\ r_pc = "try"
    /\ r_attempt < MAX_FILE_RETRIES
    /\ r_log' = Append(r_log, OpOpen(r_attempt))
    /\ IF r_outcomes[r_attempt + 1] = "ok"
       THEN /\ r_result' = Returned(ContentAt(r_attempt))
            /\ r_pc' = "done"
       ELSE IF MayRetry(r_attempt)
            THEN /\ r_pc' = "sleep"
                 /\ UNCHANGED r_result
            ELSE /\ r_result' = Raised(ErrorAt(r_outcomes, r_attempt))
                 /\ r_pc' = "done"
    /\ UNCHANGED <<r_outcomes, r_attempt>>
    /\ UNCHANGED notR

\* time.sleep(FILE_RETRY_DELAY_SECONDS), then the next iteration
RSleep ==
    /\ r_pc = "sleep"
    /\ r_log' = Append(r_log, OpSleep(FILE_RETRY_DELAY_SECONDS))
    /\ r_attempt' = r_attempt + 1
    /\ r_pc' = "try"
    /\ UNCHANGED <<r_outcomes, r_result>>
    /\ UNCHANGED notR

RNext == RAttempt \/ RSleep

\* the retry loop stands still in the other specifications
RIdle ==
    /\ r_outcomes = <<>> /\ r_attempt = 0 /\ r_pc = "off" /\ r_log = <<>>
    /\ r_result = Running

(***************************************************************************)
(* The Session Controller: RaceInterceptorUI with its WatchdogManager, the *)
(* observers it starts and the threads it spawns (src/interceptor/main.py).*)
(* Time is left out here: a handler call is a begin step and a finish      *)
(* step, and the debounce shows as an event that may be dropped.           *)
(***************************************************************************)
MaxSessions == 2
MaxUpdates == 2
MaxWrites == 2

Observers == 1..MaxSessions

\* entries of the queue a queue-update carries
Players == { [id |-> 1, name |-> <<"A">>], [id |-> 2, name |-> <<"B">>] }

\* AppState.next_player is None
NoPlayer == [id |-> 0, name |-> <<>>]

\* RigState
FREE == "FREE"
RACING == "RACING"

\* threads of the process
UiThread == "ui"
WatcherThread == "watcher"
StopThread == "stop"

\* race.ini as Content Manager (or another process) left it
Unpatched == <<>>

\* the sequence without its i-th element
RemoveAt(seq, i) == SubSeq(seq, 1, i - 1) \o SubSeq(seq, i + 1, Len(seq))

\* the call of _on_start_race that is under way
srvars == <<sr_pc, sr_id, start_race_raised>>

ouvars == <<rig_state, next_player, start_button, skip_button, end_button, ui_queue,
            after_queue,
            session_tasks, window_closed, sr_pc, sr_id, start_race_raised>>
owvars == <<wd_observer, n_observers, o_state, o_name, o_done, o_pc, o_events,
            o_accepted, wd_stop_threads, wd_stop_started, wd_stop_tasks, ini_name>>
ogvars == <<o_stop_called, o_notified, launched, ran_on, n_updates, n_writes>>

CInit ==
    /\ rig_state = FREE
    /\ next_player = NoPlayer
    /\ start_button = "disabled"
    /\ skip_button = "disabled"
    /\ end_button = "hidden"
    /\ ui_queue = <<>>
    /\ after_queue = <<>>
    /\ session_tasks = <<>>
    /\ window_closed = FALSE
    /\ sr_pc = "idle"
    /\ sr_id = 0
    /\ start_race_raised = FALSE
    /\ wd_observer = 0
    /\ n_observers = 0
    /\ o_state = [o \in Observers |-> "none"]
    /\ o_name = [o \in Observers |-> <<>>]
    /\ o_done = [o \in Observers |-> FALSE]
    /\ o_pc = [o \in Observers |-> "idle"]
    /\ o_events = [o \in Observers |-> 0]
    /\ o_accepted = [o \in Observers |-> FALSE]
    /\ wd_stop_threads = 0
    /\ wd_stop_started = <<>>
    /\ wd_stop_tasks = {}
    /\ ini_name = Unpatched
    /\ o_stop_called = [o \in Observers |-> FALSE]
    /\ o_notified = [o \in Observers |-> 0]
    /\ launched = <<>>
    /\ ran_on = {}
    /\ n_updates = 0
    /\ n_writes = 0

\* _on_queue_update, called by the Socket.IO thread: AppState.update_from_backend
\* and the UI refresh handed to the UI queue
OnQueueUpdate(state, player) ==
    /\ ~window_closed
    /\ n_updates < MaxUpdates
    /\ n_updates' = n_updates + 1
    /\ rig_state' = state
    /\ next_player' = player
    /\ ui_queue' = Append(ui_queue, "_update_ui")
    /\ UNCHANGED <<start_button, skip_button, end_button, after_queue, session_tasks,
                   window_closed, srvars,
                   owvars, o_stop_called, o_notified, launched, ran_on, n_writes>>
    /\ UNCHANGED notC

\* the UI thread is not inside _on_start_race
UiThreadFree == sr_pc = "idle"

\* _poll_ui_queue: every queued callback is run; the callbacks of this model
\* are all _update_ui, which shows the buttons that fit AppState
PollUiQueue ==
    /\ ~window_closed
    /\ UiThreadFree
    /\ ui_queue # <<>>
    /\ ui_queue' = <<>>
    /\ start_button' = IF rig_state = RACING THEN "hidden"
                       ELSE IF next_player # NoPlayer THEN "normal" ELSE "disabled"
    /\ skip_button' = start_button'
    /\ end_button' = IF rig_state = RACING THEN "shown" ELSE "hidden"
    /\ ran_on' = ran_on \cup {<<"_update_ui", UiThread>>}
    /\ UNCHANGED <<rig_state, next_player, after_queue, session_tasks, window_closed,
                   srvars,
                   owvars, o_stop_called, o_notified, launched, n_updates, n_writes>>
    /\ UNCHANGED notC

\* the results of start_session that the UI thread has not yet looked at
PendingStarts ==
    Cardinality({i \in 1..Len(after_queue) : after_queue[i].fn = "_on_start_race_complete"})

\* _on_start_race, the Start Race button, up to its first statement:
\* "if not self._state.next_player: return"
OnStartRace ==
    /\ ~window_closed
    /\ UiThreadFree
    /\ start_button = "normal"
    /\ Len(session_tasks) + PendingStarts + n_observers < MaxSessions
    /\ sr_pc' = IF next_player = NoPlayer THEN "idle" ELSE "id"
    /\ UNCHANGED <<rig_state, next_player, start_button, skip_button, end_button,
                   ui_queue, after_queue, session_tasks, window_closed, sr_id,
                   start_race_raised, owvars, ogvars>>
    /\ UNCHANGED notC

\* self._state.next_player.get(...) when next_player is None: AttributeError
\* ends the call
StartRaceRaises ==
    /\ sr_pc' = "idle"
    /\ sr_id' = 0
    /\ start_race_raised' = TRUE

\* _on_start_race: player_id = self._state.next_player.get("id")
StartRaceReadId ==
    /\ sr_pc = "id"
    /\ IF next_player = NoPlayer
       THEN StartRaceRaises
       ELSE /\ sr_id' = next_player.id
            /\ sr_pc' = "name"
            /\ UNCHANGED start_race_raised
    /\ UNCHANGED <<rig_state, next_player, start_button, skip_button, end_button,
                   ui_queue, after_queue, session_tasks, window_closed, owvars, ogvars>>
    /\ UNCHANGED notC

\* _on_start_race: player_name = self._state.next_player.get("name"), the
\* two buttons disabled, and the thread of start_session_task started with
\* the id and the name read
StartRaceReadName ==
    /\ sr_pc = "name"
    /\ IF next_player = NoPlayer
       THEN /\ StartRaceRaises
            /\ UNCHANGED <<start_button, skip_button, session_tasks>>
       ELSE /\ start_button' = "disabled"
            /\ skip_button' = "disabled"
            /\ session_tasks' = Append(session_tasks,
                                       [id |-> sr_id, name |-> next_player.name])
            /\ sr_pc' = "idle"
            /\ sr_id' = 0
            /\ UNCHANGED start_race_raised
    /\ UNCHANGED <<rig_state, next_player, end_button, ui_queue, after_queue,
                   window_closed, owvars, ogvars>>
    /\ UNCHANGED notC

\* start_session_task, a thread: backend.start_session and the hand-over of
\* its result with window.after(0, ...)
StartSessionTask(success) ==
    /\ session_tasks # <<>>
    /\ session_tasks' = Tail(session_tasks)
    /\ after_queue' = IF window_closed THEN after_queue
                      ELSE Append(after_queue, [fn |-> "_on_start_race_complete",
                                                success |-> success,
                                                player_name |-> Head(session_tasks).name])
    /\ UNCHANGED <<rig_state, next_player, start_button, skip_button, end_button, ui_queue,
                   window_closed, srvars, owvars, ogvars>>
    /\ UNCHANGED notC

\* WatchdogManager.start: a new handler and a new started Observer take the
\* place of whatever the manager held
WatchdogStart(player_name) ==
    /\ n_observers' = n_observers + 1
    /\ wd_observer' = n_observers + 1
    /\ o_state' = [o_state EXCEPT ![n_observers + 1] = "running"]
    /\ o_name' = [o_name EXCEPT ![n_observers + 1] = player_name]

\* a session is begun whatever start_session returned
SessionStarted_Always(callback) == TRUE

\* "if success:" of _on_start_race_complete
SessionStarted(callback) == callback.success

\* _on_start_race_complete, run by the UI thread
OnStartRaceComplete(i) ==
    /\ ~window_closed
    /\ UiThreadFree
    /\ i \in 1..Len(after_queue)
    /\ after_queue[i].fn = "_on_start_race_complete"
    /\ IF SessionStarted(after_queue[i])
       THEN /\ WatchdogStart(after_queue[i].player_name)
            /\ after_queue' = Append(RemoveAt(after_queue, i),
                                     [fn |-> "_launch_game", success |-> TRUE,
                                      player_name |-> after_queue[i].player_name])
            /\ UNCHANGED <<start_button, skip_button>>
       ELSE /\ start_button' = "normal"
            /\ skip_button' = "normal"
            /\ after_queue' = RemoveAt(after_queue, i)
            /\ UNCHANGED <<n_observers, wd_observer, o_state, o_name>>
    /\ ran_on' = ran_on \cup {<<"_on_start_race_complete", UiThread>>}
    /\ UNCHANGED <<rig_state, next_player, end_button, ui_queue, session_tasks,
                   window_closed, srvars, o_done, o_pc, o_events, o_accepted,
                   wd_stop_threads,
                   wd_stop_started,
                   wd_stop_tasks, ini_name, o_stop_called, o_notified, launched,
                   n_updates, n_writes>>
    /\ UNCHANGED notC

\* the watch session the manager holds is started, not stopped, not yet
\* injected, and armed with this name
ArmedWith(player_name) ==
    /\ wd_observer # 0
    /\ o_state[wd_observer] = "running"
    /\ ~o_done[wd_observer]
    /\ o_name[wd_observer] = player_name

\* _launch_game, run by the UI thread WATCHDOG_LAUNCH_DELAY_MS later
LaunchGame(i) ==
    /\ ~window_closed
    /\ UiThreadFree
    /\ i \in 1..Len(after_queue)
    /\ after_queue[i].fn = "_launch_game"
    /\ after_queue' = RemoveAt(after_queue, i)
    /\ launched' = Append(launched, [player_name |-> after_queue[i].player_name,
                                     armed |-> ArmedWith(after_queue[i].player_name)])
    /\ ran_on' = ran_on \cup {<<"_launch_game", UiThread>>}
    /\ UNCHANGED <<rig_state, next_player, start_button, skip_button, end_button, ui_queue,
                   session_tasks, window_closed, srvars, owvars, o_stop_called, o_notified,
                   n_updates, n_writes>>
    /\ UNCHANGED notC

\* every running observer queues an event for a write of race.ini
Notify(events) ==
    [o \in Observers |-> IF o_state[o] = "running" THEN events[o] + 1 ELSE events[o]]

\* Content Manager (or anything else) writes race.ini
CExternalWrite ==
    /\ n_writes < MaxWrites
    /\ n_writes' = n_writes + 1
    /\ ini_name' = Unpatched
    /\ o_events' = Notify(o_events)
    /\ UNCHANGED <<ouvars, wd_observer, n_observers, o_state, o_name, o_done, o_pc,
                   o_accepted, wd_stop_threads, wd_stop_started, wd_stop_tasks, o_stop_called,
                   o_notified, launched, ran_on, n_updates>>
    /\ UNCHANGED notC

\* the observer thread of o calls on_modified: the event is dropped (flag
\* set, or inside the debounce window of an accepted one) or the handler
\* starts its settle sleep
HandlerBegin(o, debounced) ==
    /\ o_state[o] = "running"
    /\ o_pc[o] = "idle"
    /\ o_events[o] > 0
    /\ debounced => o_accepted[o]
    /\ o_events' = [o_events EXCEPT ![o] = @ - 1]
    /\ IF o_done[o] \/ debounced
       THEN UNCHANGED <<o_pc, o_accepted>>
       ELSE /\ o_pc' = [o_pc EXCEPT ![o] = "busy"]
            /\ o_accepted' = [o_accepted EXCEPT ![o] = TRUE]
    /\ UNCHANGED <<ouvars, wd_observer, n_observers, o_state, o_name, o_done,
                   wd_stop_threads, wd_stop_started, wd_stop_tasks, ini_name, ogvars>>
    /\ UNCHANGED notC

\* a thread that will call WatchdogManager.stop, as its starter leaves it
StopThreadOf(starter) == [by |-> starter, observers |-> n_observers]

\* on_modified of o after a successful injection: the flag, and
\* _on_injection_complete called there and then, which starts the thread
\* that will call WatchdogManager.stop
HandlerSucceeds(o) ==
    /\ o_pc[o] = "busy"
    /\ o_pc' = [o_pc EXCEPT ![o] = "idle"]
    /\ ini_name' = o_name[o]
    /\ o_events' = Notify(o_events)
    /\ o_done' = [o_done EXCEPT ![o] = TRUE]
    /\ o_notified' = [o_notified EXCEPT ![o] = @ + 1]
    /\ wd_stop_threads' = wd_stop_threads + 1
    /\ wd_stop_started' = Append(wd_stop_started, StopThreadOf("_on_injection_complete"))
    /\ ran_on' = ran_on \cup {<<"_on_injection_complete", WatcherThread>>}
    /\ UNCHANGED <<ouvars, wd_observer, n_observers, o_state, o_name, o_accepted,
                   wd_stop_tasks, o_stop_called, launched, n_updates, n_writes>>
    /\ UNCHANGED notC

\* on_modified of o after a failed injection: _on_injection_failed called
\* there and then
HandlerFails(o) ==
    /\ o_pc[o] = "busy"
    /\ o_pc' = [o_pc EXCEPT ![o] = "idle"]
    /\ o_notified' = [o_notified EXCEPT ![o] = @ + 1]
    /\ ran_on' = ran_on \cup {<<"_on_injection_failed", WatcherThread>>}
    /\ UNCHANGED <<ouvars, wd_observer, n_observers, o_state, o_name, o_done, o_events,
                   o_accepted, wd_stop_threads, wd_stop_started, wd_stop_tasks, ini_name,
                   o_stop_called,
                   launched, n_updates, n_writes>>
    /\ UNCHANGED notC

\* WatchdogManager.stop(join=True), run by a thread of its own
WatchdogStop(t) ==
    /\ wd_stop_threads > 0
    /\ t \in 1..Len(wd_stop_started)
    /\ wd_stop_threads' = wd_stop_threads - 1
    /\ wd_stop_started' = RemoveAt(wd_stop_started, t)
    /\ ran_on' = ran_on \cup {<<"WatchdogManager.stop", StopThread>>}
    /\ IF wd_observer = 0
       THEN UNCHANGED <<wd_observer, wd_stop_tasks, o_stop_called>>
       ELSE /\ wd_observer' = 0
            /\ wd_stop_tasks' = wd_stop_tasks \cup {wd_observer}
            /\ o_stop_called' = [o_stop_called EXCEPT ![wd_observer] = TRUE]
    /\ UNCHANGED <<ouvars, n_observers, o_state, o_name, o_done, o_pc, o_events,
                   o_accepted, ini_name, o_notified, launched, n_updates, n_writes>>
    /\ UNCHANGED notC

\* stop_observer_task: observer_to_stop.stop(); a handler call that is under
\* way runs to its end, no further event is dispatched
StopObserverTask(o) ==
    /\ o \in wd_stop_tasks
    /\ wd_stop_tasks' = wd_stop_tasks \ {o}
    /\ o_state' = [o_state EXCEPT ![o] = "stopped"]
    /\ UNCHANGED <<ouvars, wd_observer, n_observers, o_name, o_done, o_pc, o_events,
                   o_accepted, wd_stop_threads, wd_stop_started, ini_name, ogvars>>
    /\ UNCHANGED notC

\* _on_end_session, the End Session button: backend.complete_session and,
\* when it fails, a message box; the rig state comes back with a queue-update
OnEndSession ==
    /\ ~window_closed
    /\ UiThreadFree
    /\ end_button = "shown"
    /\ end_button' = "clicked"
    /\ UNCHANGED <<rig_state, next_player, start_button, skip_button, ui_queue, after_queue,
                   session_tasks, window_closed, srvars, owvars, ogvars>>
    /\ UNCHANGED notC

\* _on_closing: a thread for WatchdogManager.stop when a session is held,
\* then the window is destroyed
OnClosing ==
    /\ ~window_closed
    /\ UiThreadFree
    /\ window_closed' = TRUE
    /\ wd_stop_threads' = IF wd_observer # 0 THEN wd_stop_threads + 1 ELSE wd_stop_threads
    /\ wd_stop_started' = IF wd_observer # 0
                          THEN Append(wd_stop_started, StopThreadOf("_on_closing"))
                          ELSE wd_stop_started
    /\ UNCHANGED <<rig_state, next_player, start_button, skip_button, end_button, ui_queue,
                   after_queue, session_tasks, srvars, wd_observer, n_observers, o_state,
                   o_name,
                   o_done, o_pc, o_events, o_accepted, wd_stop_tasks, ini_name, ogvars>>
    /\ UNCHANGED notC

CNext ==
    \/ \E state \in {FREE, RACING}, player \in Players \cup {NoPlayer} :
          OnQueueUpdate(state, player)
    \/ PollUiQueue
    \/ OnStartRace
    \/ StartRaceReadId
    \/ StartRaceReadName
    \/ \E success \in BOOLEAN : StartSessionTask(success)
    \/ \E i \in 1..MaxSessions : OnStartRaceComplete(i)
    \/ \E i \in 1..MaxSessions : LaunchGame(i)
    \/ CExternalWrite
    \/ \E o \in Observers, debounced \in BOOLEAN : HandlerBegin(o, debounced)
    \/ \E o \in Observers : HandlerSucceeds(o)
    \/ \E o \in Observers : HandlerFails(o)
    \/ \E t \in 1..(MaxSessions + 1) : WatchdogStop(t)
    \/ \E o \in Observers : StopObserverTask(o)
    \/ OnEndSession
    \/ OnClosing

\* the controller stands still in the other specifications
CIdle ==
    /\ rig_state = "off" /\ next_player = NoPlayer /\ start_button = "off"
    /\ skip_button = "off"
    /\ end_button = "off" /\ ui_queue = <<>> /\ after_queue = <<>>
    /\ session_tasks = <<>> /\ window_closed = FALSE /\ wd_observer = 0
    /\ sr_pc = "off" /\ sr_id = 0 /\ start_race_raised = FALSE
    /\ n_observers = 0 /\ o_state = <<>> /\ o_name = <<>> /\ o_done = <<>>
    /\ o_pc = <<>> /\ o_events = <<>> /\ o_accepted = <<>> /\ wd_stop_threads = 0
    /\ wd_stop_started = <<>>
    /\ wd_stop_tasks = {} /\ ini_name = <<>> /\ o_stop_called = <<>>
    /\ o_notified = <<>> /\ launched = <<>> /\ ran_on = {} /\ n_updates = 0
    /\ n_writes = 0

(***************************************************************************)
(* AssettoCorsaServerJoiner.wait_for_race_ini_and_inject: one call, from   *)
(* observer.start() to the return (src/interceptor/start_assetto.py).      *)
(* Time is in ticks of 50 ms; file calls and thread wake-ups take no time. *)
(***************************************************************************)
JOIN_DEBOUNCE == 10
JOIN_SETTLE == 3
JOIN_RETRY_DELAY == 2
joiner_max_retries == 5

\* the timeouts a caller passes, in ticks
MaxTimeout == 12
Timeouts == {0, MaxTimeout \div 2, MaxTimeout}

\* writes and other changes by other processes during one call
MaxJoinEvents == 2

\* the longest on_modified call: the settle sleep and every retry sleep of
\* the read loop and of the write loop
HandlerMax == JOIN_SETTLE + 2 * (joiner_max_retries - 1) * JOIN_RETRY_DELAY

JMaxClock == MaxTimeout + HandlerMax + 1

jhvars == <<j_last, j_hpc, j_attempt, j_sleep, j_lines>>

jcvars == <<j_timeout, j_name, j_linesep, j_pc, j_result, j_returned_at>>

JInit ==
    /\ j_timeout \in Timeouts
    /\ j_name = <<"A">>
    /\ j_file \in KFileDocs
    /\ j_linesep \in { <<LF>>, <<CR, LF>> }
    /\ j_clock = 0
    /\ j_pc = "waiting"
    /\ j_result = FALSE
    /\ j_returned_at = 0
    /\ injection_done = FALSE
    /\ injection_success = FALSE
    /\ j_observer = "running"
    /\ j_evq = <<>>
    /\ j_last = JOIN_DEBOUNCE
    /\ j_hpc = "idle"
    /\ j_attempt = 0
    /\ j_sleep = 0
    /\ j_lines = <<>>
    /\ j_emitted = 0
    /\ j_ok = 0
    /\ j_failed = 0

\* the observer queues an event only while it runs
JEmit(q, e) == IF j_observer = "running" THEN Append(q, e) ELSE q

\* Content Manager (or anything else) rewrites race.ini
JExternalWrite(doc) ==
    /\ j_pc # "returned"
    /\ j_emitted < MaxJoinEvents
    /\ j_emitted' = j_emitted + 1
    /\ j_file' = doc
    /\ j_evq' = JEmit(j_evq, RaceIniEvent(0, 0))
    /\ UNCHANGED <<jcvars, j_clock, injection_done, injection_success, j_observer,
                   jhvars, j_ok, j_failed>>
    /\ UNCHANGED notJ

\* something else changes in the watched directory
JOtherChange(e) ==
    /\ j_pc # "returned"
    /\ j_emitted < MaxJoinEvents
    /\ j_emitted' = j_emitted + 1
    /\ j_evq' = JEmit(j_evq, e)
    /\ UNCHANGED <<jcvars, j_file, j_clock, injection_done, injection_success,
                   j_observer, jhvars, j_ok, j_failed>>
    /\ UNCHANGED notJ

\* mutant: the observer thread goes on dispatching after observer.stop()
MayDispatch_AfterStop == j_observer # "joined"

\* the observer thread calls handlers until observer.stop()
MayDispatch == j_observer = "running"

\* the observer thread takes the next event and calls on_modified, which
\* returns at once or starts the settle sleep
JDispatch ==
    /\ MayDispatch
    /\ j_pc # "returned"
    /\ j_hpc = "idle"
    /\ j_evq # <<>>
    /\ j_evq' = Tail(j_evq)
    /\ IF /\ ~Head(j_evq).is_directory
          /\ EndsWith(Head(j_evq).src_path, RACE_INI)
          /\ ~(j_last < JOIN_DEBOUNCE)
       THEN /\ j_last' = 0
            /\ j_hpc' = "read"
            /\ j_sleep' = JOIN_SETTLE
            /\ j_attempt' = 0
       ELSE UNCHANGED <<j_last, j_hpc, j_sleep, j_attempt>>
    /\ UNCHANGED <<jcvars, j_file, j_clock, injection_done, injection_success,
                   j_observer, j_lines, j_emitted, j_ok, j_failed>>
    /\ UNCHANGED notJ

\* modify_race_ini: attempt is not the last one
JMayRetry(a) == a < joiner_max_retries - 1

\* one more attempt after the retry sleep
JRetry ==
    /\ j_attempt' = j_attempt + 1
    /\ j_sleep' = JOIN_RETRY_DELAY
    /\ UNCHANGED <<j_hpc, j_failed>>

\* modify_race_ini caught the error of the last attempt and returned False;
\* on_modified returns
JReturnsFalse ==
    /\ j_hpc' = "idle"
    /\ j_failed' = j_failed + 1
    /\ UNCHANGED <<j_attempt, j_sleep>>

\* modify_race_ini: a read attempt that succeeds, followed by the patch loop
JReadOk ==
    /\ j_hpc = "read"
    /\ j_sleep = 0
    /\ j_lines' = JoinerModifyLines(KioskReadLines(j_file), j_name)
    /\ j_hpc' = "write"
    /\ j_attempt' = 0
    /\ UNCHANGED <<jcvars, j_file, j_clock, injection_done, injection_success,
                   j_observer, j_evq, j_last, j_sleep, j_emitted, j_ok, j_failed>>
    /\ UNCHANGED notJ

\* modify_race_ini: a read attempt that raises
JReadFail ==
    /\ j_hpc = "read"
    /\ j_sleep = 0
    /\ IF JMayRetry(j_attempt) THEN JRetry ELSE JReturnsFalse
    /\ UNCHANGED <<jcvars, j_file, j_clock, injection_done, injection_success,
                   j_observer, j_evq, j_last, j_lines, j_emitted, j_ok>>
    /\ UNCHANGED notJ

\* modify_race_ini: a write attempt that succeeds; modify_race_ini returns
\* True and on_modified sets the flag and the event
JWriteOk ==
    /\ j_hpc = "write"
    /\ j_sleep = 0
    /\ j_file' = KioskWriteContent(j_lines, j_linesep)
    /\ j_evq' = JEmit(j_evq, RaceIniEvent(0, 0))
    /\ j_hpc' = "idle"
    /\ j_ok' = j_ok + 1
    /\ injection_success' = TRUE
    /\ injection_done' = TRUE
    /\ UNCHANGED <<jcvars, j_clock, j_observer, j_last, j_attempt, j_sleep, j_lines,
                   j_emitted, j_failed>>
    /\ UNCHANGED notJ

\* modify_race_ini: a write attempt that raises
JWriteFail ==
    /\ j_hpc = "write"
    /\ j_sleep = 0
    /\ IF JMayRetry(j_attempt) THEN JRetry ELSE JReturnsFalse
    /\ UNCHANGED <<jcvars, j_file, j_clock, injection_done, injection_success,
                   j_observer, j_evq, j_last, j_lines, j_emitted, j_ok>>
    /\ UNCHANGED notJ

\* injection_done.wait(timeout) returns, the event set or the time over, and
\* the caller calls observer.stop()
JWaitOver ==
    /\ j_pc = "waiting"
    /\ injection_done \/ j_clock >= j_timeout
    /\ j_pc' = "joining"
    /\ j_observer' = "stopped"
    /\ UNCHANGED <<j_timeout, j_name, j_file, j_linesep, j_clock, j_result,
                   j_returned_at, injection_done, injection_success, j_evq, jhvars,
                   j_emitted, j_ok, j_failed>>
    /\ UNCHANGED notJ

\* observer.join() returns once the observer thread has left on_modified and
\* its loop; the caller returns injection_success[0]
JReturn ==
    /\ j_pc = "joining"
    /\ j_hpc = "idle"
    /\ ~(MayDispatch /\ j_evq # <<>>)
    /\ j_observer' = "joined"
    /\ j_pc' = "returned"
    /\ j_result' = injection_success
    /\ j_returned_at' = j_clock
    /\ UNCHANGED <<j_timeout, j_name, j_file, j_linesep, j_clock, injection_done,
                   injection_success, j_evq, jhvars, j_emitted, j_ok, j_failed>>
    /\ UNCHANGED notJ

\* a step that is due now, before the clock moves on
JDue ==
    \/ j_pc = "waiting" /\ (injection_done \/ j_clock >= j_timeout)
    \/ j_pc = "joining" /\ j_hpc = "idle"
    \/ j_hpc # "idle" /\ j_sleep = 0
    \/ MayDispatch /\ j_hpc = "idle" /\ j_evq # <<>>

\* 50 ms pass
JTick ==
    /\ j_pc # "returned"
    /\ ~JDue
    /\ j_clock' = IF j_clock < JMaxClock THEN j_clock + 1 ELSE j_clock
    /\ j_last' = IF j_last < JOIN_DEBOUNCE THEN j_last + 1 ELSE j_last
    /\ j_sleep' = IF j_sleep > 0 THEN j_sleep - 1 ELSE 0
    /\ UNCHANGED <<jcvars, j_file, injection_done, injection_success, j_observer,
                   j_evq, j_hpc, j_attempt, j_lines, j_emitted, j_ok, j_failed>>
    /\ UNCHANGED notJ

JNext ==
    \/ \E doc \in KFileDocs : JExternalWrite(doc)
    \/ \E e \in OtherEvents : JOtherChange(e)
    \/ JDispatch
    \/ JReadOk
    \/ JReadFail
    \/ JWriteOk
    \/ JWriteFail
    \/ JWaitOver
    \/ JReturn
    \/ JTick

\* no call of wait_for_race_ini_and_inject in the other specifications
JIdle ==
    /\ j_timeout = 0 /\ j_name = <<>> /\ j_file = <<>> /\ j_linesep = <<LF>>
    /\ j_clock = 0 /\ j_pc = "off" /\ j_result = FALSE /\ j_returned_at = 0
    /\ injection_done = FALSE /\ injection_success = FALSE /\ j_observer = "none"
    /\ j_evq = <<>> /\ j_last = 0 /\ j_hpc = "off" /\ j_attempt = 0 /\ j_sleep = 0
    /\ j_lines = <<>> /\ j_emitted = 0 /\ j_ok = 0 /\ j_failed = 0

(***************************************************************************)
(* BackendClient._make_request, as written in interceptor/backend_client.py *)
(* and in race_interceptor/backend_client.py, and start_session on top of  *)
(* it.  One call, with the outcome of every HTTP attempt given.            *)
(***************************************************************************)
DEFAULT_MAX_RETRIES == 3

Impls == {"interceptor", "race_interceptor"}

\* what requests.request and response.json() can meet: a JSON object with
\* status < 400, carrying success true or not; one with status >= 400; a
\* timeout; a connection error; any other exception (a body that is no JSON)
HttpOutcomes == {"ok_success", "ok", "api_error", "Timeout", "ConnectionError", "Exception"}

HttpOk == {"ok_success", "ok"}

\* the parsed body of the response with status < 400 that attempt a met
BodyOf(outcome, a) == [kind |-> "dict", success |-> outcome = "ok_success", attempt |-> a]

None == [kind |-> "None", success |-> FALSE, attempt |-> 0]

\* _make_request has not returned yet
Pending == [kind |-> "pending", success |-> FALSE, attempt |-> 0]

\* mutant: the retry sleep is taken after the last attempt as well
HttpMayRetry_Always(a, max) == a < max

\* "if attempt < max_retries - 1": the sleep before the next attempt
HttpMayRetry(a, max) == a < max - 1

\* both copies: a response with status >= 400 is turned into None; only
\* race_interceptor returns that None out of the loop at once
ReturnsOnApiError(impl) == impl = "race_interceptor"

QInit ==
    /\ q_impl \in Impls
    /\ q_max_retries \in 0..DEFAULT_MAX_RETRIES
    /\ q_outcomes \in [1..q_max_retries -> HttpOutcomes]
    /\ q_attempt = 0
    /\ q_pc = "try"
    /\ q_log = <<>>
    /\ q_result = Pending
    /\ q_session = "pending"

\* one HTTP attempt: requests.request, response.json() and the status test,
\* then the return, the retry sleep that is due, or the end of the loop and
\* "Request failed after ... attempts"
QAttempt ==
    /\ q_pc = "try"
    /\ q_attempt < q_max_retries
    /\ q_log' = Append(q_log, "request")
    /\ LET outcome == q_outcomes[q_attempt + 1]
       IN  IF outcome \in HttpOk
           THEN /\ q_result' = BodyOf(outcome, q_attempt)
                /\ q_pc' = "returned"
           ELSE IF outcome = "api_error" /\ ReturnsOnApiError(q_impl)
           THEN /\ q_result' = None
                /\ q_pc' = "returned"
           ELSE IF HttpMayRetry(q_attempt, q_max_retries)
           THEN /\ q_pc' = "sleep"
                /\ UNCHANGED q_result
           ELSE /\ q_result' = None
                /\ q_pc' = "returned"
    /\ UNCHANGED <<q_impl, q_max_retries, q_outcomes, q_attempt, q_session>>
    /\ UNCHANGED notQ

\* time.sleep(RETRY_DELAY), then the next iteration
QSleep ==
    /\ q_pc = "sleep"
    /\ q_log' = Append(q_log, "sleep")
    /\ q_attempt' = q_attempt + 1
    /\ q_pc' = "try"
    /\ UNCHANGED <<q_impl, q_max_retries, q_outcomes, q_result, q_session>>
    /\ UNCHANGED notQ

\* a loop over range(0): no attempt, "Request failed after 0 attempts"
QExhausted ==
    /\ q_pc = "try"
    /\ q_attempt >= q_max_retries
    /\ q_result' = None
    /\ q_pc' = "returned"
    /\ UNCHANGED <<q_impl, q_max_retries, q_outcomes, q_attempt, q_log, q_session>>
    /\ UNCHANGED notQ

\* start_session (complete_session and skip_player read the same):
\* "response and response.get('success')"
QStartSession ==
    /\ q_pc = "returned"
    /\ q_session' = IF q_result # None /\ q_result.success THEN "True" ELSE "False"
    /\ q_pc' = "done"
    /\ UNCHANGED <<q_impl, q_max_retries, q_outcomes, q_attempt, q_log, q_result>>
    /\ UNCHANGED notQ

QNext == QAttempt \/ QSleep \/ QExhausted \/ QStartSession

\* no HTTP request in the other specifications
QIdle ==
    /\ q_impl = "none" /\ q_max_retries = 0 /\ q_outcomes = <<>> /\ q_attempt = 0
    /\ q_pc = "off" /\ q_log = <<>> /\ q_result = Pending /\ q_session = "pending"

(***************************************************************************)
(* BackendClient._on_queue_update, the handler of the 'queue-update'       *)
(* event, in both copies of backend_client.py                              *)
(***************************************************************************)
\* rigs in one payload, and payloads handled
MaxRigs == 2
MaxPayloads == 2

RigIds == {1, 2}

\* currentPlayer is null
NoCurrentPlayer == <<>>

\* the rig entries the backend sends: a rig is FREE with nobody or somebody
\* queued, or RACING with its player
RigEntries ==
    { [id |-> i, state |-> FREE, currentPlayer |-> NoCurrentPlayer, queue |-> q] :
          i \in RigIds, q \in { <<>>, << <<"A">> >> } }
    \cup { [id |-> i, state |-> RACING, currentPlayer |-> <<"A">>, queue |-> <<>>] :
          i \in RigIds }

Payloads == UNION { [1..n -> RigEntries] : n \in 0..MaxRigs }

\* next(..., None) found nothing
NoRig == [id |-> 0, state |-> "", currentPlayer |-> NoCurrentPlayer, queue |-> <<>>]

\* mutant: the first entry is taken, whatever its id
FindRigFrom_AnyId(rigs, i, rig_id) == IF rigs = <<>> THEN NoRig ELSE rigs[1]

\* next((r for r in rigs if r["id"] == self.rig_id), None), from entry i on
RECURSIVE FindRigFrom(_, _, _)
FindRigFrom(rigs, i, rig_id) ==
    IF i > Len(rigs) THEN NoRig
    ELSE IF rigs[i].id = rig_id THEN rigs[i]
    ELSE FindRigFrom(rigs, i + 1, rig_id)

UInit ==
    /\ u_impl \in Impls
    /\ u_rig_id \in RigIds
    /\ u_state = ""
    /\ u_current_player = NoCurrentPlayer
    /\ u_queue_length = 0
    /\ u_calls = <<>>
    /\ u_payload = <<>>

\* _on_queue_update(data) with data["rigs"] = rigs: interceptor returns when
\* my_rig is None, race_interceptor goes on "if my_rig" (an entry with an id
\* is a non-empty dict); then the three assignments and the callback
UOnQueueUpdate(rigs) ==
    /\ Len(u_calls) < MaxPayloads
    /\ u_payload' = rigs
    /\ LET my_rig == FindRigFrom(rigs, 1, u_rig_id)
       IN  IF my_rig # NoRig
           THEN /\ u_state' = my_rig.state
                /\ u_current_player' = my_rig.currentPlayer
                /\ u_queue_length' = Len(my_rig.queue)
                /\ u_calls' = Append(u_calls, my_rig)
           ELSE UNCHANGED <<u_state, u_current_player, u_queue_length, u_calls>>
    /\ UNCHANGED <<u_impl, u_rig_id>>
    /\ UNCHANGED notU

UNext == \E rigs \in Payloads : UOnQueueUpdate(rigs)

\* no queue-update event in the other specifications
UIdle ==
    /\ u_impl = "none" /\ u_rig_id = 0 /\ u_state = "" /\ u_current_player = <<>>
    /\ u_queue_length = 0 /\ u_calls = <<>> /\ u_payload = <<>>

(***************************************************************************)
(* AssettoCorsaServerJoiner.join_server(server_config, launch)             *)
(***************************************************************************)
required_fields == <<"server_ip", "car_id", "steam_id", "driver_name">>

Fields == {required_fields[i] : i \in 1..Len(required_fields)}

\* a key of server_config is absent, present with None, or present with a value
Configs == [Fields -> {"absent", "None", "set"}]

\* mutant: a field counts as given only if it holds a value
InConfig_NotNone(field, config) == config[field] = "set"

\* "field in server_config"
InConfig(field, config) == config[field] # "absent"

\* the first required field, in the order of the list, that is missing
RECURSIVE FirstMissingFrom(_, _)
FirstMissingFrom(i, config) ==
    IF i > Len(required_fields) THEN ""
    ELSE IF ~InConfig(required_fields[i], config) THEN required_fields[i]
    ELSE FirstMissingFrom(i + 1, config)

SInit ==
    /\ s_config \in Configs
    /\ s_launch \in BOOLEAN
    /\ s_pc = "validate"
    /\ s_effects = <<>>
    /\ s_result = <<"pending", "">>

\* the loop over required_fields
SValidate ==
    /\ s_pc = "validate"
    /\ IF FirstMissingFrom(1, s_config) # ""
       THEN /\ s_result' = <<"ValueError", FirstMissingFrom(1, s_config)>>
            /\ s_pc' = "done"
       ELSE /\ s_pc' = IF s_launch THEN "start_thread" ELSE "create"
            /\ UNCHANGED s_result
    /\ UNCHANGED <<s_config, s_launch, s_effects>>
    /\ UNCHANGED notS

\* launch: the thread that runs wait_for_race_ini_and_inject is started
SStartThread ==
    /\ s_pc = "start_thread"
    /\ s_effects' = Append(s_effects, "injection_thread.start")
    /\ s_pc' = "launch"
    /\ UNCHANGED <<s_config, s_launch, s_result>>
    /\ UNCHANGED notS

\* launch: after the sleep, launch_game opens the acmanager:// URL
SLaunchGame ==
    /\ s_pc = "launch"
    /\ s_effects' = Append(s_effects, "launch_game")
    /\ s_pc' = "join"
    /\ UNCHANGED <<s_config, s_launch, s_result>>
    /\ UNCHANGED notS

\* launch: injection_thread.join(timeout=30.0) returns and the script idles
\* until Ctrl+C
SJoinThread ==
    /\ s_pc = "join"
    /\ s_pc' = "idle"
    /\ UNCHANGED <<s_config, s_launch, s_effects, s_result>>
    /\ UNCHANGED notS

SKeyboardInterrupt ==
    /\ s_pc = "idle"
    /\ s_pc' = "done"
    /\ s_result' = <<"return", "">>
    /\ UNCHANGED <<s_config, s_launch, s_effects>>
    /\ UNCHANGED notS

\* no launch: create_race_ini writes race.ini
SCreateRaceIni ==
    /\ s_pc = "create"
    /\ s_effects' = Append(s_effects, "create_race_ini")
    /\ s_pc' = "done"
    /\ s_result' = <<"return", "">>
    /\ UNCHANGED <<s_config, s_launch>>
    /\ UNCHANGED notS

SNext ==
    \/ SValidate
    \/ SStartThread
    \/ SLaunchGame
    \/ SJoinThread
    \/ SKeyboardInterrupt
    \/ SCreateRaceIni

\* no join_server call in the other specifications
SIdle ==
    /\ s_config = <<>> /\ s_launch = FALSE /\ s_pc = "off" /\ s_effects = <<>>
    /\ s_result = <<"pending", "">>

(***************************************************************************)
(* RaceInterceptorUI._schedule_ui_update and _poll_ui_queue: callbacks     *)
(* handed from background threads to the UI thread                         *)
(***************************************************************************)
\* callbacks scheduled in one run
MaxCallbacks == 3

\* mutant: the callback is looked at but stays in the queue
QueueAfterGet_Peek(q) == q

\* _ui_queue.get_nowait() takes the head off the queue
QueueAfterGet(q) == Tail(q)

GInit ==
    /\ g_queue = <<>>
    /\ g_next = 1
    /\ g_ran = <<>>
    /\ g_pc = "timer"
    /\ g_errors = 0
    /\ g_closed = FALSE

\* _schedule_ui_update(callback), called by a background thread; the
\* callback is one that returns or one that raises
GSchedule(raises) ==
    /\ ~g_closed
    /\ g_next <= MaxCallbacks
    /\ g_queue' = Append(g_queue, [id |-> g_next, raises |-> raises])
    /\ g_next' = g_next + 1
    /\ UNCHANGED <<g_ran, g_pc, g_errors, g_closed>>
    /\ UNCHANGED notG

\* the timer set with window.after(UI_QUEUE_POLL_MS, ...) fires
GPollStart ==
    /\ ~g_closed
    /\ g_pc = "timer"
    /\ g_pc' = "loop"
    /\ UNCHANGED <<g_queue, g_next, g_ran, g_errors, g_closed>>
    /\ UNCHANGED notG

\* one round of "while True": get_nowait() and callback(); a callback that
\* raises ends the loop in "except Exception", and the next timer is set
GPollCallback ==
    /\ g_pc = "loop"
    /\ g_queue # <<>>
    /\ g_queue' = QueueAfterGet(g_queue)
    /\ g_ran' = Append(g_ran, <<Head(g_queue).id, UiThread>>)
    /\ IF Head(g_queue).raises
       THEN g_errors' = g_errors + 1 /\ g_pc' = "timer"
       ELSE UNCHANGED <<g_errors, g_pc>>
    /\ UNCHANGED <<g_next, g_closed>>
    /\ UNCHANGED notG

\* get_nowait() raises queue.Empty: the loop ends and the next timer is set
GPollEmpty ==
    /\ g_pc = "loop"
    /\ g_queue = <<>>
    /\ g_pc' = "timer"
    /\ UNCHANGED <<g_queue, g_next, g_ran, g_errors, g_closed>>
    /\ UNCHANGED notG

\* _on_closing, run by the UI thread between two polls: window.destroy()
\* ends the main loop and with it the timers
GClosing ==
    /\ ~g_closed
    /\ g_pc = "timer"
    /\ g_closed' = TRUE
    /\ UNCHANGED <<g_queue, g_next, g_ran, g_pc, g_errors>>
    /\ UNCHANGED notG

GNext ==
    \/ \E raises \in BOOLEAN : GSchedule(raises)
    \/ GPollStart
    \/ GPollCallback
    \/ GPollEmpty
    \/ GClosing

\* no UI queue in the other specifications
GIdle ==
    /\ g_queue = <<>> /\ g_next = 0 /\ g_ran = <<>> /\ g_pc = "off" /\ g_errors = 0
    /\ g_closed = FALSE

\* the patcher pipeline stands still in Spec
PIdle ==
    /\ pfile = <<>> /\ pname = <<>> /\ plines = <<>> /\ pmod = <<>> /\ pfirst = <<>>
    /\ p_kiosk = <<>> /\ p_joiner = <<>>
    /\ pstage = "off" /\ ppass = 1

\* the watch session stands still in PatchSpec
WIdle ==
    /\ file = <<>> /\ mgr_observer = FALSE /\ obs_running = FALSE
    /\ evq = <<>> /\ h_name = <<>> /\ elapsed = MaxElapsed /\ h_done = FALSE
    /\ pc = "off" /\ attempt = 0 /\ sleep = 0 /\ h_lines = <<>> /\ h_modified = <<>>
    /\ cur = NoEvent
    /\ stop_threads = 0 /\ stop_tasks = 0 /\ starts = 0 /\ emitted = 0
    /\ n_accepted = 0 /\ n_true = 0 /\ n_false = 0 /\ n_complete = 0 /\ n_failed = 0
    /\ n_wtries = 0

Init == WInit /\ PIdle /\ KIdle /\ RIdle /\ CIdle /\ JIdle /\ QIdle /\ UIdle /\ SIdle /\ GIdle

Next == WNext

Spec == Init /\ [][Next]_vars

(***************************************************************************)
(* PatchSpec: read, patch, write, and once more over the written file      *)
(***************************************************************************)
PInit ==
    /\ WIdle
    /\ KIdle
    /\ RIdle
    /\ CIdle
    /\ JIdle
    /\ QIdle
    /\ UIdle
    /\ SIdle
    /\ GIdle
    /\ pfile \in Docs
    /\ pname \in Names
    /\ plines = <<>>
    /\ pmod = <<>>
    /\ p_kiosk = <<>>
    /\ p_joiner = <<>>
    /\ pfirst = <<>>
    /\ pstage = "start"
    /\ ppass = 1

PRead ==
    /\ pstage = "start"
    /\ plines' = ReadLines(pfile)
    /\ pstage' = "read"
    /\ UNCHANGED <<pfile, pname, pmod, p_kiosk, p_joiner, pfirst, ppass>>
    /\ UNCHANGED notP

PModify ==
    /\ pstage = "read"
    /\ pmod' = ModifyLines(plines, pname)
    /\ p_kiosk' = KioskModifyLines(plines, pname)
    /\ p_joiner' = JoinerModifyLines(plines, pname)
    /\ pstage' = "modified"
    /\ UNCHANGED <<pfile, pname, plines, pfirst, ppass>>
    /\ UNCHANGED notP

PWrite ==
    /\ pstage = "modified"
    /\ pfile' = WriteContent(pmod)
    /\ pstage' = "written"
    /\ pfirst' = IF ppass = 1 THEN WriteContent(pmod) ELSE pfirst
    /\ UNCHANGED <<pname, plines, pmod, p_kiosk, p_joiner, ppass>>
    /\ UNCHANGED notP

\* the file just written is read and patched once more with the same name
PAgain ==
    /\ pstage = "written"
    /\ ppass = 1
    /\ ppass' = 2
    /\ pstage' = "start"
    /\ UNCHANGED <<pfile, pname, plines, pmod, p_kiosk, p_joiner, pfirst>>
    /\ UNCHANGED notP

PNext == PRead \/ PModify \/ PWrite \/ PAgain

PatchSpec == PInit /\ [][PNext]_vars

(***************************************************************************)
(* KioskSpec: the kiosk from launch to the closing of its window           *)
(***************************************************************************)
KioskInit == KInit /\ PIdle /\ WIdle /\ RIdle /\ CIdle /\ JIdle /\ QIdle /\ UIdle /\ SIdle /\ GIdle

KioskSpec == KioskInit /\ [][KNext]_vars

\* every thread of the kiosk that can take a step eventually takes one, and
\* time passes; the visitor and the writers of race.ini owe nothing
KFairness ==
    /\ WF_vars(KAutoStart)
    /\ WF_vars(KUpdateAfterRaceStart)
    /\ WF_vars(KPrepareForNextPlayer)
    /\ WF_vars(KTick)
    /\ WF_vars(KDispatch)
    /\ WF_vars(KGetNickname)
    \* an attempt under way (k_pc is "read" or "write", no sleep left) ends:
    \* these three are enabled exactly when KReadOk or KWriteOk is, and any
    \* of the five steps ends the attempt
    /\ WF_vars(KReadFail \/ KWriteFail \/ KIoHangs)
    /\ WF_vars(KJoined)

KioskLiveSpec == KioskSpec /\ KFairness

(***************************************************************************)
(* RetrySpec: one call of _read_race_ini                                   *)
(***************************************************************************)
RetryInit == RInit /\ PIdle /\ WIdle /\ KIdle /\ CIdle /\ JIdle /\ QIdle /\ UIdle /\ SIdle /\ GIdle

RetrySpec == RetryInit /\ [][RNext]_vars

(***************************************************************************)
(* CtlSpec: the Session Controller from its construction on                *)
(***************************************************************************)
CtlInit == CInit /\ PIdle /\ WIdle /\ KIdle /\ RIdle /\ JIdle /\ QIdle /\ UIdle /\ SIdle /\ GIdle

CtlSpec == CtlInit /\ [][CNext]_vars

\* every thread of the process that can take a step eventually takes one;
\* the visitor, the backend and the writers of race.ini owe nothing
CFairness ==
    /\ WF_vars(PollUiQueue)
    /\ WF_vars(StartRaceReadId \/ StartRaceReadName)
    /\ WF_vars(\E success \in BOOLEAN : StartSessionTask(success))
    /\ WF_vars(\E i \in 1..MaxSessions : OnStartRaceComplete(i))
    /\ WF_vars(\E i \in 1..MaxSessions : LaunchGame(i))
    /\ WF_vars(\E t \in 1..(MaxSessions + 1) : WatchdogStop(t))
    /\ \A o \in Observers :
          /\ WF_vars(\E debounced \in BOOLEAN : HandlerBegin(o, debounced))
          /\ WF_vars(HandlerSucceeds(o) \/ HandlerFails(o))
          /\ WF_vars(StopObserverTask(o))

CtlLiveSpec == CtlSpec /\ CFairness

(***************************************************************************)
(* JoinSpec: one call of wait_for_race_ini_and_inject                      *)
(***************************************************************************)
JoinInit == JInit /\ PIdle /\ WIdle /\ KIdle /\ RIdle /\ CIdle /\ QIdle /\ UIdle /\ SIdle /\ GIdle

JoinSpec == JoinInit /\ [][JNext]_vars

\* the caller and the observer thread take the steps that are due, and time
\* passes; the writers of race.ini owe nothing.  JReadFail and JWriteFail
\* are enabled exactly when JReadOk and JWriteOk are, and any of the four
\* ends the attempt
JFairness ==
    /\ WF_vars(JTick)
    /\ WF_vars(JDispatch)
    /\ WF_vars(JReadFail \/ JWriteFail)
    /\ WF_vars(JWaitOver)
    /\ WF_vars(JReturn)

JoinLiveSpec == JoinSpec /\ JFairness

(***************************************************************************)
(* HttpSpec: one call of start_session through _make_request               *)
(***************************************************************************)
HttpInit == QInit /\ PIdle /\ WIdle /\ KIdle /\ RIdle /\ CIdle /\ JIdle /\ UIdle /\ SIdle /\ GIdle

HttpSpec == HttpInit /\ [][QNext]_vars

(***************************************************************************)
(* QueueSpec: queue-update events arriving at one BackendClient            *)
(***************************************************************************)
QueueInit == UInit /\ PIdle /\ WIdle /\ KIdle /\ RIdle /\ CIdle /\ JIdle /\ QIdle /\ SIdle /\ GIdle

QueueSpec == QueueInit /\ [][UNext]_vars

(***************************************************************************)
(* JoinServerSpec: one call of join_server                                 *)
(***************************************************************************)
JoinServerInit ==
    SInit /\ PIdle /\ WIdle /\ KIdle /\ RIdle /\ CIdle /\ JIdle /\ QIdle /\ UIdle /\ GIdle

JoinServerSpec == JoinServerInit /\ [][SNext]_vars

(***************************************************************************)
(* UiQueueSpec: the UI queue from the construction of the window on        *)
(***************************************************************************)
UiQueueInit ==
    GInit /\ PIdle /\ WIdle /\ KIdle /\ RIdle /\ CIdle /\ JIdle /\ QIdle /\ UIdle /\ SIdle

UiQueueSpec == UiQueueInit /\ [][GNext]_vars

\* the UI thread runs its timers and its loop; the background threads and
\* the operator who closes the window owe nothing
GFairness ==
    /\ WF_vars(GPollStart)
    /\ WF_vars(GPollCallback)
    /\ WF_vars(GPollEmpty)

UiQueueLiveSpec == UiQueueSpec /\ GFairness

(***************************************************************************)
(* Properties of the patcher, stated over what _read_race_ini returned     *)
(* (plines) and what _modify_lines made of it (pmod)                       *)
(***************************************************************************)
Patched == pstage \in {"modified", "written"}

\* the header lines above line i, as the scan sees them (NUL removed)
HeadersBefore(lines, i) == {j \in 1..(i - 1) : IsSectionHeader(RemoveNul(lines[j]))}

\* the section context of line i: the most recently seen header above it
SectionAt(lines, i) ==
    LET hs == HeadersBefore(lines, i)
    IN  IF hs = {} THEN NoSection
        ELSE SectionOf(RemoveNul(lines[CHOOSE j \in hs : \A k \in hs : k <= j]))

KeyLine(lines, i, key) ==
    /\ ~IsSectionHeader(RemoveNul(lines[i]))
    /\ StartsWith(Strip(RemoveNul(lines[i])), key)

IsDriverTarget(lines, i) == SectionAt(lines, i) = CAR_0 /\ KeyLine(lines, i, DRIVER_NAME_EQ)

IsRemoteTarget(lines, i) == SectionAt(lines, i) = REMOTE /\ KeyLine(lines, i, NAME_EQ)

IsTarget(lines, i) == IsDriverTarget(lines, i) \/ IsRemoteTarget(lines, i)

HasNul(s) == \E k \in 1..Len(s) : s[k] = NUL

Targets(lines) == {i \in 1..Len(lines) : IsTarget(lines, i)}

\* C1: every DRIVER_NAME= line under [CAR_0] is output as exactly
\* DRIVER_NAME=<name>\n and every NAME= line under [REMOTE] as exactly
\* NAME=<name>\n, for all occurrences and with the one name of the pass
C1_TargetsRewritten ==
    Patched =>
        /\ Len(pmod) = Len(plines)
        /\ \A i \in 1..Len(plines) :
            /\ IsDriverTarget(plines, i) => pmod[i] = DRIVER_NAME_EQ \o pname \o <<LF>>
            /\ IsRemoteTarget(plines, i) => pmod[i] = NAME_EQ \o pname \o <<LF>>

\* both targets occur in one document, one of them more than once
C1_Witness ==
    /\ pstage = "modified"
    /\ \E i, j, k \in 1..Len(plines) :
        /\ i # j
        /\ IsDriverTarget(plines, i) /\ pmod[i] = DRIVER_NAME_EQ \o pname \o <<LF>>
        /\ IsDriverTarget(plines, j) /\ pmod[j] = pmod[i]
        /\ IsRemoteTarget(plines, k) /\ pmod[k] = NAME_EQ \o pname \o <<LF>>

\* C2 as stated: every line that matches no patch target is emitted
\* unchanged, also when it contains NUL characters
C2_NonTargetsVerbatim ==
    Patched =>
        /\ Len(pmod) = Len(plines)
        /\ \A i \in 1..Len(plines) : ~IsTarget(plines, i) => pmod[i] = plines[i]

\* C2 as amended: a line that matches no patch target is emitted in its
\* position with its NUL characters removed and nothing else changed (its
\* terminator included), so a line without NUL is emitted verbatim and a
\* document without NUL and without matching lines comes out identical
C2_NonTargetsKeptButNul ==
    Patched =>
        /\ Len(pmod) = Len(plines)
        /\ \A i \in 1..Len(plines) :
            ~IsTarget(plines, i) =>
                /\ pmod[i] = RemoveNul(plines[i])
                /\ ~HasNul(plines[i]) => pmod[i] = plines[i]
        /\ (Targets(plines) = {} /\ \A i \in 1..Len(plines) : ~HasNul(plines[i]))
               => pmod = plines

\* a CRLF line and a line with NUL, neither a target, next to a rewritten one
C2_Witness ==
    /\ pstage = "modified"
    /\ \E i, j, k \in 1..Len(plines) :
        /\ ~IsTarget(plines, i) /\ EndsWith(plines[i], <<CR, LF>>) /\ pmod[i] = plines[i]
        /\ ~IsTarget(plines, j) /\ HasNul(plines[j]) /\ pmod[j] # plines[j]
        /\ IsTarget(plines, k)

C4_SectionScoping ==
    Patched =>
        \A i \in 1..Len(plines) :
            LET line == RemoveNul(plines[i])
                sect == SectionAt(plines, i)
                kept == pmod[i] = line
            IN  /\ sect = NoSection => kept
                /\ (KeyLine(plines, i, DRIVER_NAME_EQ) /\ sect # CAR_0) => kept
                /\ (KeyLine(plines, i, NAME_EQ) /\ sect # REMOTE) => kept
                /\ (sect = REMOTE /\ ~KeyLine(plines, i, NAME_EQ)) => kept
                /\ (sect = CAR_0 /\ ~KeyLine(plines, i, DRIVER_NAME_EQ)) => kept

SERVER_NAME_EQ == <<"S", "E", "R", "V", "E", "R", "_">> \o NAME_EQ

\* a DRIVER_NAME= line above every header, a SERVER_NAME= line inside
\* [REMOTE] next to a NAME= line that is rewritten
C4_Witness ==
    /\ pstage = "modified"
    /\ \E i, j, k \in 1..Len(plines) :
        /\ KeyLine(plines, i, DRIVER_NAME_EQ) /\ SectionAt(plines, i) = NoSection
        /\ pmod[i] = plines[i]
        /\ KeyLine(plines, j, SERVER_NAME_EQ) /\ SectionAt(plines, j) = REMOTE
        /\ pmod[j] = plines[j]
        /\ IsRemoteTarget(plines, k) /\ pmod[k] # plines[k]

RaceFile(e) == ~e.is_directory /\ EndsWith(e.src_path, RACE_INI)

\* this step is the observer thread handing Head(evq) to on_modified
DispatchStep == obs_running /\ pc = "idle" /\ evq # <<>> /\ evq' = Tail(evq)

\* on_modified returns at once: nothing read, nothing written, no callback
Dropped ==
    /\ pc' = "idle"
    /\ file' = file
    /\ UNCHANGED <<n_accepted, n_true, n_false, n_complete, n_failed>>

\* on_modified goes on to the settle sleep and the injection
Accepted == pc' = "settle" /\ n_accepted' = n_accepted + 1

\* e was emitted after the latest event this handler accepted
AfterLatestAccepted(e) == n_accepted >= 1 /\ e.after = n_accepted

NulFree(lines) == [i \in 1..Len(lines) |-> RemoveNul(lines[i])]

\* this step is _inject_player_name returning True, resp. False
ReturnsTrue == n_true' = n_true + 1
ReturnsFalse == n_false' = n_false + 1

\* C6: when no target occurs in what was read (an empty file included) the
\* patcher output is the input without its NUL characters, the injection
\* that writes it returns True and fires no failure callback, and False is
\* returned only after a read or write attempt raised for the last time
C6_AbsentTargetsNoOp ==
    /\ [](pc = "write" /\ Targets(h_lines) = {} =>
            /\ h_modified = NulFree(h_lines)
            /\ h_lines = <<>> => h_modified = <<>>)
    /\ [][(pc = "write" /\ Targets(h_lines) = {} /\ ReturnsTrue) =>
            /\ file' = WriteContent(NulFree(h_lines))
            /\ h_lines = <<>> => file' = <<>>
            /\ n_failed' = n_failed]_vars
    /\ [][ReturnsFalse =>
            /\ pc \in {"settle", "read", "write"}
            /\ (IF pc = "write" THEN attempt ELSE ReadAttemptNo) = MAX_FILE_RETRIES - 1]_vars

\* an injection over a file without targets (and with a NUL) returned True
C6_Witness ==
    /\ pc = "idle"
    /\ n_true = 1
    /\ n_failed = 0
    /\ h_lines = ReadLines(DocNoTarget)
    /\ Targets(h_lines) = {}
    /\ file = RemoveNul(DocNoTarget)
    /\ file # DocNoTarget

\* C7: a race.ini event emitted within the debounce window after the latest
\* accepted event is dropped, whether that event's injection succeeded or
\* failed
C7_DebounceDrop ==
    [][(/\ DispatchStep
        /\ RaceFile(Head(evq))
        /\ AfterLatestAccepted(Head(evq))
        /\ Head(evq).gap < DEBOUNCE_SECONDS) => Dropped]_vars

\* C8 as stated: a race.ini event emitted 600 ms after the latest accepted
\* event is processed, so that two injections run
C8_TwoInjections ==
    [][(/\ DispatchStep
        /\ RaceFile(Head(evq))
        /\ AfterLatestAccepted(Head(evq))
        /\ Head(evq).gap >= SixHundredMs) => Accepted]_vars

\* C8 as amended: such an event is processed when the earlier injection
\* failed, and dropped when it succeeded; every accepted event gets its
\* injection
C8_TwoInjectionsUnlessDone ==
    /\ [][(/\ DispatchStep
           /\ RaceFile(Head(evq))
           /\ AfterLatestAccepted(Head(evq))
           /\ Head(evq).gap >= SixHundredMs)
          => IF h_done THEN Dropped /\ n_true = 1 ELSE Accepted /\ n_true = 0]_vars
    /\ [](n_accepted = n_true + n_false + (IF pc = "idle" THEN 0 ELSE 1))

\* the second of two events 600 ms apart is being processed
C8_Witness ==
    /\ n_accepted = 2
    /\ n_false = 1
    /\ pc = "write"
    /\ RaceFile(cur) /\ cur.after = 1 /\ cur.gap >= SixHundredMs

\* C9: on_injection_complete is invoked at most once per handler, and once
\* if an injection succeeded; after the first success the handler reads
\* and writes nothing and fires no callback until start is called again
C9_OneInjectionPerSession ==
    /\ [](/\ n_complete <= 1
          /\ n_true >= 1 => n_complete = 1
          /\ h_done <=> n_true >= 1
          /\ h_done => pc = "idle")
    /\ [][(h_done /\ starts' = starts) =>
            /\ h_done'
            /\ pc' = "idle"
            /\ UNCHANGED <<n_accepted, n_true, n_false, n_complete, n_failed>>
            /\ file' # file => emitted' = emitted + 1]_vars

\* after the injection a later write of race.ini was handed to the handler
\* of the still running observer and dropped
C9_Witness ==
    /\ h_done
    /\ n_complete = 1
    /\ obs_running
    /\ RaceFile(cur) /\ cur.after = 1 /\ cur.gap >= DEBOUNCE_SECONDS
    /\ emitted = MaxEvents
    /\ evq = <<>>
    /\ pc = "idle"

\* C10: when the read or the write fails on all MAX_FILE_RETRIES attempts
\* the injection returns False, the flag stays False, only the failure
\* callback fires, nothing stops the observer, and a later race.ini event
\* outside the debounce window is processed again
C10_FailureKeepsArmed ==
    /\ [][ReturnsFalse =>
            /\ ~h_done'
            /\ n_complete' = n_complete
            /\ n_failed' = n_failed + 1
            /\ n_true' = n_true
            /\ mgr_observer' /\ obs_running'
            /\ stop_threads' = 0 /\ stop_tasks' = 0]_vars
    /\ [](n_false >= 1 /\ n_true = 0 =>
            /\ ~h_done /\ n_complete = 0 /\ n_failed = n_false
            /\ mgr_observer /\ obs_running /\ stop_threads = 0 /\ stop_tasks = 0)
    /\ [][(/\ DispatchStep
           /\ RaceFile(Head(evq))
           /\ n_false >= 1 /\ n_true = 0
           /\ ~(elapsed < DEBOUNCE_SECONDS)) => Accepted]_vars

\* an injection failed on all attempts and the next event is being injected
C10_Witness ==
    /\ n_false = 1
    /\ n_failed = 1
    /\ n_accepted = 2
    /\ pc = "write"
    /\ obs_running /\ mgr_observer


(***************************************************************************)
(* Properties of the kiosk                                                 *)
(***************************************************************************)
\* C11: in the kiosk on_complete (on_race_started: nickname_set, race_count)
\* is invoked only by a modify_race_ini call that wrote race.ini; when the
\* read or the write failed on all 5 attempts it is not invoked and
\* race_count is unchanged
C11_NoCompletionOnFailure ==
    /\ [][k_race_count' # k_race_count => k_rewrote' = k_rewrote + 1]_vars
    /\ [][k_gaveup' = k_gaveup + 1 =>
            /\ k_attempt = max_retries - 1
            /\ k_race_count' = k_race_count
            /\ k_nickname_set' = k_nickname_set
            /\ k_update_timers' = k_update_timers]_vars


(***************************************************************************)
(* Properties of the retry loops                                           *)
(***************************************************************************)
\* the attempts that succeed in this sequence of outcomes
OkAttempts == {a \in 0..(MAX_FILE_RETRIES - 1) : r_outcomes[a + 1] = "ok"}

\* the least of a non-empty set of numbers
Least(S) == CHOOSE a \in S : \A b \in S : a <= b

\* the log is n attempts numbered 0..n-1 with one sleep of the retry delay
\* between each two of them, and nothing after the last attempt
AlternatingLog(n) ==
    /\ Len(r_log) = 2 * n - 1
    /\ \A i \in 1..n : r_log[2 * i - 1] = OpOpen(i - 1)
    /\ \A i \in 1..(n - 1) : r_log[2 * i] = OpSleep(FILE_RETRY_DELAY_SECONDS)

\* C12: for every sequence of outcomes _read_race_ini makes at most
\* MAX_FILE_RETRIES attempts, returns what the first successful attempt read
\* without a further attempt, sleeps the retry delay exactly once between two
\* attempts and not after the last, and raises the error of the last
\* attempt when all attempts failed
C12_ReadRetryContract ==
    /\ r_pc # "off" => Len(SelectSeq(r_log, LAMBDA o : o.op = "open")) <= MAX_FILE_RETRIES
    /\ r_pc = "done" =>
         IF OkAttempts # {}
         THEN /\ AlternatingLog(Least(OkAttempts) + 1)
              /\ r_result = Returned(ContentAt(Least(OkAttempts)))
         ELSE /\ AlternatingLog(MAX_FILE_RETRIES)
              /\ r_result = Raised(ErrorAt(r_outcomes, MAX_FILE_RETRIES - 1))

\* a call that failed on every attempt, the last one with an error unlike
\* the one before
C12_Witness ==
    /\ r_pc = "done"
    /\ OkAttempts = {}
    /\ r_outcomes[MAX_FILE_RETRIES] # r_outcomes[MAX_FILE_RETRIES - 1]
    /\ r_result.kind = "raise"
    /\ Len(r_log) = 2 * MAX_FILE_RETRIES - 1


\* C13: a write that fails on its first k attempts, k < MAX_FILE_RETRIES,
\* and then succeeds has made exactly k + 1 attempts; the injection returns
\* True and the file holds the patched content
C13_WriteRetryContract ==
    /\ [](pc = "write" =>
            /\ n_wtries = attempt
            /\ attempt < MAX_FILE_RETRIES
            /\ h_modified = ModifyLines(h_lines, h_name))
    /\ [][(pc = "write" /\ n_wtries' = n_wtries + 1 /\ ~ReturnsTrue) =>
            IF attempt < MAX_FILE_RETRIES - 1
            THEN pc' = "write" /\ attempt' = attempt + 1 /\ n_false' = n_false
            ELSE ReturnsFalse]_vars
    /\ [][(pc = "write" /\ ReturnsTrue) =>
            /\ n_wtries' = attempt + 1
            /\ file' = WriteContent(ModifyLines(h_lines, h_name))
            /\ n_complete' = n_complete + 1
            /\ n_failed' = n_failed /\ n_false' = n_false]_vars

\* a write that failed twice and succeeded on the third attempt
C13_Witness ==
    /\ pc = "idle"
    /\ n_true = 1
    /\ n_false = 0
    /\ n_wtries = 3
    /\ Targets(h_lines) # {}
    /\ file = WriteContent(ModifyLines(h_lines, h_name))
    /\ file # DocFull


(***************************************************************************)
(* Properties of the Session Controller                                    *)
(***************************************************************************)
\* the observers that were started and have not been stopped
RunningObservers == {o \in Observers : o_state[o] = "running"}

\* C14: in every reachable state of the Session Controller at most one
\* started, not yet stopped Observer with a RaceIniHandler exists
C14_AtMostOneArmed == rig_state # "off" => Cardinality(RunningObservers) <= 1


\* C15: every armed watch session is eventually disarmed without the
\* application being closed, also when race.ini is never modified or every
\* injection fails: a running observer is eventually stopped, and a manager
\* that holds an observer eventually holds none
C15_EventuallyDisarmed ==
    /\ \A o \in Observers :
          (o_state[o] = "running" /\ ~window_closed) ~>
              (o_state[o] = "stopped" \/ window_closed)
    /\ (wd_observer # 0 /\ ~window_closed) ~> (wd_observer = 0 \/ window_closed)


\* C16: once WatchdogManager.stop has been called for a session, a handler
\* call of that session that is still under way may finish, but neither
\* on_injection_complete nor on_injection_failed of that session is
\* delivered any more
C16_StopDiscardsInFlight ==
    [][\A o \in Observers : o_stop_called[o] => o_notified'[o] = o_notified[o]]_vars


\* the controller code behind the two notifications of a handler
NotificationCode == {"_on_injection_complete", "_on_injection_failed", "WatchdogManager.stop"}

\* C17: the watcher thread never runs controller code: the injection-complete
\* and injection-failed notifications, and the reads and writes of
\* WatchdogManager state they lead to, run on the UI thread only
C17_NotificationsOnUiThread ==
    \A e \in ran_on : e[1] \in NotificationCode => e[2] = UiThread


\* C18: a stop operation returns to the controller thread after a bounded
\* wait even while the handler is blocked in file I/O; in the kiosk,
\* on_closing, which has called stop_monitoring, gets past observer.join()
\* and destroys the window
C18_StopReturns == (k_ui = "joining") ~> (k_ui = "destroyed")


\* C19: Content Manager is launched only after start_session succeeded and
\* the watchdog was started, and at every launch a watch session armed with
\* the clicked player's name is active
C19_HotPhaseOrdering ==
    \A i \in 1..Len(launched) : launched[i].armed


\* C20: wait_for_race_ini_and_inject always terminates; when it returns, no
\* more than the timeout plus one handler invocation has passed, the
\* observer has been stopped and joined, and the value returned is True
\* exactly when some modify_race_ini call of this observer succeeded
C20_WaitTerminates ==
    /\ [](j_pc = "returned" =>
            /\ j_returned_at <= j_timeout + HandlerMax
            /\ j_observer = "joined" /\ j_hpc = "idle"
            /\ j_result = (j_ok > 0))
    /\ <>(j_pc = "returned")

\* a call that ran into its timeout while a handler was in flight, waited
\* for it in join() and returned True
C20_Witness ==
    /\ j_pc = "returned" /\ j_result
    /\ j_timeout > 0 /\ j_returned_at > j_timeout


\* the HTTP attempts made so far
Requests == Len(SelectSeq(q_log, LAMBDA op : op = "request"))

\* C21: an API error (status >= 400) is not retried, in either copy of
\* backend_client.py: the attempt that met it is the last entry of the log
\* and _make_request has returned None
C21_ApiErrorNotRetried ==
    \A a \in 1..Requests :
        q_outcomes[a] = "api_error" =>
            /\ a = Requests
            /\ q_log[Len(q_log)] = "request"
            /\ q_pc \in {"returned", "done"}
            /\ q_result = None


\* the log of n attempts with a sleep between consecutive ones
RECURSIVE AttemptsLog(_)
AttemptsLog(n) ==
    IF n = 0 THEN <<>>
    ELSE IF n = 1 THEN <<"request">>
    ELSE AttemptsLog(n - 1) \o <<"sleep", "request">>

\* the 1-based attempts that meet a response with status < 400
HttpOkAttempts == {a \in 1..q_max_retries : q_outcomes[a] \in HttpOk}

\* the attempts at which this copy leaves the loop early
Decisive ==
    HttpOkAttempts \cup
    {a \in 1..q_max_retries : q_outcomes[a] = "api_error" /\ ReturnsOnApiError(q_impl)}

\* C22: _make_request makes at most max_retries attempts, with a sleep
\* between consecutive attempts and none after the last; it never raises;
\* it returns the first successful response without a further attempt, and
\* None when every attempt failed, in which case start_session is False
C22_HttpRetryBound ==
    /\ Requests <= q_max_retries
    /\ q_result.kind \in {"pending", "dict", "None"}
    /\ q_pc \in {"returned", "done"} =>
          /\ q_log = AttemptsLog(Requests)
          /\ IF HttpOkAttempts # {}
             THEN LET first == Least(HttpOkAttempts)
                  IN  first = Least(Decisive) =>
                          /\ Requests = first
                          /\ q_result = BodyOf(q_outcomes[first], first - 1)
             ELSE q_result = None
          /\ Decisive = {} => Requests = q_max_retries
    /\ q_pc = "done" /\ q_result = None => q_session = "False"

\* three attempts, each a timeout, a connection error or an exception
C22_Witness ==
    /\ q_pc = "done" /\ q_impl = "interceptor"
    /\ q_max_retries = DEFAULT_MAX_RETRIES
    /\ q_outcomes = <<"Timeout", "ConnectionError", "Exception">>
    /\ q_log = <<"request", "sleep", "request", "sleep", "request">>
    /\ q_result = None /\ q_session = "False"


\* C23: the kiosk handler injects only a registered nickname: when the
\* settle sleep is over and no racer is registered, on_modified returns
\* without a file write and without on_complete, whatever has been typed
\* into the entry field; otherwise the name it takes is the registered one
C23_OnlyRegisteredNickname ==
    [][k_pc = "settle" /\ k_pc' # "settle" =>
          IF k_current_racer = <<>>
          THEN k_pc' = "idle" /\ k_file' = k_file /\ k_race_count' = k_race_count
          ELSE k_nick' = k_current_racer]_vars


\* C24: the three copies of the patch loop agree: for the same lines and
\* the same name, _modify_lines of interceptor/main.py, the loop of the
\* kiosk's modify_race_ini and the loop of the joiner's modify_race_ini
\* give the same list of output lines
C24_PatchCopiesAgree ==
    Patched => p_kiosk = pmod /\ p_joiner = pmod

\* the lines hold a target of each kind, a NUL character and a header
\* between blanks, and the patch changed them
C24_Witness ==
    /\ pstage = "modified" /\ pmod # plines /\ p_kiosk = pmod /\ p_joiner = pmod
    /\ \E i, j, k \in 1..Len(plines) :
        /\ IsDriverTarget(plines, i) /\ IsRemoteTarget(plines, j)
        /\ NUL \in {plines[k][n] : n \in 1..Len(plines[k])}


\* the entries of a payload that carry this client's rig id
Matching(rigs) == {i \in 1..Len(rigs) : rigs[i].id = u_rig_id}

\* C25: a queue-update payload without an entry for this rig leaves state,
\* current_player and queue_length as they are and invokes no callback; one
\* with such an entry sets the three from the first matching entry and
\* invokes on_queue_update once, with that entry
C25_QueueUpdateFilter ==
    [][IF Matching(u_payload') = {}
       THEN UNCHANGED <<u_state, u_current_player, u_queue_length, u_calls>>
       ELSE LET first == u_payload'[Least(Matching(u_payload'))]
            IN  /\ u_state' = first.state
                /\ u_current_player' = first.currentPlayer
                /\ u_queue_length' = Len(first.queue)
                /\ u_calls' = Append(u_calls, first)]_vars

\* this rig was set to RACING by one payload, and the payload after it,
\* which names the other rig only, has been handled
C25_Witness ==
    /\ Len(u_calls) = 1 /\ u_calls[1].state = RACING /\ u_state = RACING
    /\ u_payload # <<>> /\ Matching(u_payload) = {}


\* C28: join_server with a server_config that lacks one of server_ip,
\* car_id, steam_id, driver_name raises ValueError before the watcher
\* thread is started, Content Manager is launched or race.ini is created
C28_ValidatesBeforeActing ==
    (\E f \in Fields : s_config[f] = "absent" /\ s_pc # "off") =>
        /\ s_effects = <<>>
        /\ s_pc \in {"validate", "done"}
        /\ s_pc = "done" => s_result[1] = "ValueError" /\ s_config[s_result[2]] = "absent"

\* only driver_name is missing; join_server has raised
C28_Witness ==
    /\ s_pc = "done" /\ s_launch
    /\ s_config["driver_name"] = "absent"
    /\ \A f \in Fields \ {"driver_name"} : s_config[f] = "set"
    /\ s_result = <<"ValueError", "driver_name">> /\ s_effects = <<>>


\* the numbers of the callbacks in a sequence of queue entries
RECURSIVE IdsOf(_)
IdsOf(q) == IF q = <<>> THEN <<>> ELSE <<Head(q).id>> \o IdsOf(Tail(q))

\* the numbers of the callbacks executed, in the order of execution
RECURSIVE RanIds(_)
RanIds(r) == IF r = <<>> THEN <<>> ELSE <<Head(r)[1]>> \o RanIds(Tail(r))

HasRun(id) == \E i \in 1..Len(g_ran) : g_ran[i][1] = id

\* every callback scheduled so far has been executed once or waits in the
\* queue, in the order of scheduling, and all executions were on the UI
\* thread; an error logged has not stopped the polling
ExactlyOnceInOrder ==
    /\ RanIds(g_ran) \o IdsOf(g_queue) = [i \in 1..(g_next - 1) |-> i]
    /\ \A i \in 1..Len(g_ran) : g_ran[i][2] = UiThread
    /\ g_pc \in {"timer", "loop"}

\* C27 as stated: every callback scheduled through _schedule_ui_update is
\* eventually executed, exactly once, on the UI thread, in FIFO order, also
\* when callbacks raise
C27_CallbacksRun ==
    /\ []ExactlyOnceInOrder
    /\ \A id \in 1..MaxCallbacks : (id < g_next) ~> HasRun(id)

\* C27, amended: the same, for as long as the window is open: a callback
\* still queued when the window is destroyed is never executed
C27_CallbacksRunWhileOpen ==
    /\ []ExactlyOnceInOrder
    /\ \A id \in 1..MaxCallbacks : (id < g_next) ~> (HasRun(id) \/ g_closed)

\* the first callback raised with two more behind it in the queue, and a
\* later poll has executed both
C27_Witness ==
    /\ g_errors = 1 /\ RanIds(g_ran) = <<1, 2, 3>> /\ g_queue = <<>>
    /\ ~g_closed

\* the callbacks of one kind waiting in a window.after queue
CallbacksOf(q, fn) == {i \in 1..Len(q) : q[i].fn = fn}

\* the results of start_session that are False and wait for the UI thread
FailedStarts(q) == {i \in CallbacksOf(q, "_on_start_race_complete") : ~q[i].success}

\* C26: when _on_start_race_complete takes a False result of start_session,
\* no watch session is started (no observer is created, the manager holds
\* what it held), no _launch_game is scheduled or run, race.ini is left as
\* it is, and the Start and Skip buttons are set to "normal"
C26_StartFailurePath ==
    [][Cardinality(FailedStarts(after_queue')) < Cardinality(FailedStarts(after_queue))
       => /\ n_observers' = n_observers /\ wd_observer' = wd_observer
          /\ o_state' = o_state /\ o_name' = o_name
          /\ Cardinality(CallbacksOf(after_queue', "_launch_game"))
                = Cardinality(CallbacksOf(after_queue, "_launch_game"))
          /\ launched' = launched
          /\ ini_name' = ini_name /\ o_events' = o_events
          /\ start_button' = "normal" /\ skip_button' = "normal"]_vars

\* a start was refused after the queue had emptied and the buttons had been
\* disabled for it: no observer exists, nothing was launched, race.ini is
\* as it was, and both buttons are enabled again
C26_Witness ==
    /\ <<"_on_start_race_complete", UiThread>> \in ran_on
    /\ n_observers = 0 /\ launched = <<>> /\ ini_name = Unpatched
    /\ after_queue = <<>> /\ session_tasks = <<>>
    /\ next_player = NoPlayer /\ ui_queue = <<>> /\ rig_state = FREE
    /\ start_button = "normal" /\ skip_button = "normal"

\* the lines hold the line "DRIVER_NAME=<name>" under [CAR_0]
HasDriverLine(lines, name) ==
    \E i \in 1..Len(lines) :
        /\ SectionAt(lines, i) = CAR_0
        /\ lines[i] = DRIVER_NAME_EQ \o name \o <<LF>>

\* _on_injection_complete is called
CompletionFires == n_complete' = n_complete + 1

\* C29: whenever _on_injection_complete fires for a session armed with a
\* player name, what the interceptor has just written to race.ini holds the
\* line DRIVER_NAME=<that name> under [CAR_0]
C29_CompleteImpliesInjected ==
    [][CompletionFires =>
            /\ file' = WriteContent(h_modified)
            /\ HasDriverLine(h_modified, h_name)]_vars

\* the interceptor writes race.ini
InterceptorWrites == n_true' = n_true + 1

\* C30: after a write of the interceptor race.ini is the patch of what the
\* file held just before that write, which is the latest content another
\* process wrote, also when that process wrote after the interceptor's read
C30_NoLostUpdate ==
    [][InterceptorWrites =>
            file' = WriteContent(ModifyLines(ReadLines(file), h_name))]_vars

\* the handler of observer o rewrites race.ini with its name
Rewrites(o) == ~o_done[o] /\ o_done'[o]

\* the player_name of the most recent WatchdogManager.start call
LatestArmedName == o_name[n_observers]

\* C31: whenever the interceptor rewrites race.ini, the name it writes is
\* the player_name of the most recent WatchdogManager.start call: the name
\* of an earlier session that ended without an injection is never written
\* after a later session has been armed
C31_LatestArmedName ==
    [][\A o \in Observers : Rewrites(o) => ini_name' = LatestArmedName]_vars

\* thread t of the waiting stop threads runs WatchdogManager.stop
StopThreadRuns(t) ==
    /\ t \in 1..Len(wd_stop_started)
    /\ wd_stop_threads' = wd_stop_threads - 1
    /\ wd_stop_started' = RemoveAt(wd_stop_started, t)

\* the observer the manager holds was created after thread t was started
HoldsLaterObserver(t) == wd_observer > wd_stop_started[t].observers

\* C32: the thread that _on_injection_complete starts never stops the
\* observer of a session that WatchdogManager.start armed after the
\* completion
C32_StopOnlyOwnSession ==
    [][\A t \in 1..Len(wd_stop_started) :
          (/\ StopThreadRuns(t)
           /\ wd_stop_started[t].by = "_on_injection_complete"
           /\ HoldsLaterObserver(t)) => wd_observer' = wd_observer]_vars

\* C33: the player id that a start_session_task sends to
\* backend.start_session and the player name it has armed in the watchdog
\* come from one queue entry, and no call of _on_start_race has raised on a
\* missing player, whatever queue-updates replace AppState.next_player in
\* the Socket.IO thread meanwhile
C33_ConsistentPlayer ==
    /\ \A i \in 1..Len(session_tasks) :
          \E player \in Players :
              session_tasks[i].id = player.id /\ session_tasks[i].name = player.name
    /\ ~start_race_raised

====
